---- MODULE Spec2Model ----
(***************************************************************************)
(* A model of the Rainier Game Boy core: the register file, the MMU, the   *)
(* instruction table and its effects, the CPU loop, the interrupt          *)
(* controller, the timer clock and the OAM scan of the PPU.                *)
(*                                                                         *)
(* Arrays of the MMU are kept sparse: a region is a function from the      *)
(* offsets that were stored to their bytes, and every other offset holds   *)
(* the value the constructor gave it.                                      *)
(***************************************************************************)
EXTENDS Integers, Sequences, FiniteSets, TLC

VARIABLES
    registers,        \* Cpu.registers: the register file
    mmu,              \* the Mmu shared by every subsystem
    serial_log,       \* Cpu.serial_log
    cycles,           \* Clock.cycles
    fault,            \* "none", or the panic that aborted the process
    overflow_checks,  \* the build profile: TRUE when arithmetic overflow panics
    phase,            \* "new" (constructed), "booted"
    hist,             \* one record per operation performed, newest last
    steps,            \* operations performed so far
    ppu               \* Ppu: sprite_buffer, current_mode, current_t_cycles_count

vars == <<registers, mmu, serial_log, cycles, fault, overflow_checks, phase, hist, steps,
          ppu>>

\* The bound on the number of API calls of the register, MMU and clock specifications.
MaxCalls == 3

-----------------------------------------------------------------------------
(* Bytes and words *)

RECURSIVE BitAnd(_, _)
BitAnd(x, y) ==
    IF x = 0 \/ y = 0 THEN 0
    ELSE (x % 2) * (y % 2) + 2 * BitAnd(x \div 2, y \div 2)

RECURSIVE BitOr(_, _)
BitOr(x, y) ==
    IF x = 0 THEN y
    ELSE IF y = 0 THEN x
    ELSE (IF (x % 2) + (y % 2) > 0 THEN 1 ELSE 0) + 2 * BitOr(x \div 2, y \div 2)

RECURSIVE BitXor(_, _)
BitXor(x, y) ==
    IF x = 0 THEN y
    ELSE IF y = 0 THEN x
    ELSE (((x % 2) + (y % 2)) % 2) + 2 * BitXor(x \div 2, y \div 2)

\* !x on a u8
BitNot8(x) == 255 - x

\* 1 << n
Shl1(n) == 2 ^ n

Wrap8(n) == n % 256
Wrap16(n) == n % 65536

\* The value does not fit the unsigned type of the given width.
Overflows8(n) == n < 0 \/ n > 255
Overflows16(n) == n < 0 \/ n > 65535

-----------------------------------------------------------------------------
(* bit_utils.rs *)

\* The sum of the low nibbles is at most 30: it never overflows a u8.
carry_check_add_8bit(x, y) ==
    BitAnd((x % 16) + (y % 16), 16) = 16

\* (a & 0xF) - (b & 0xF) on u8: the wrapped difference decides the result.
carry_check_sub_8bit(x, y) ==
    BitAnd(Wrap8((x % 16) - (y % 16)), 16) = 16

\* The subtraction of carry_check_sub_8bit underflows.
carry_check_sub_8bit_overflows(x, y) == (x % 16) < (y % 16)

concatenate_bytes(lower_byte, higher_byte) ==
    BitOr(lower_byte, higher_byte * 256)

\* (low_byte, high_byte)
split_2bytes(bytes) == <<bytes % 256, bytes \div 256>>

-----------------------------------------------------------------------------
(* cpu/registers.rs *)

FlagZero == 128
FlagSubtraction == 64
FlagHalfCarry == 32
FlagCarry == 16

Flags == {FlagZero, FlagSubtraction, FlagHalfCarry, FlagCarry}

\* Registers::default(); the ime field is read by Interrupts::handle_interrupts.
RegistersNew ==
    [a |-> 0, b |-> 0, c |-> 0, d |-> 0, e |-> 0, f |-> 0, h |-> 0, l |-> 0,
     sp |-> 0, pc |-> 0, ime |-> FALSE]

\* set_f without the 0xF0 mask.
set_f_unmasked(regs, val) == [regs EXCEPT !.f = val]

set_f(regs, val) == [regs EXCEPT !.f = BitAnd(val, 240)]

af(regs) == BitOr(regs.a * 256, regs.f)
set_af(regs, val) == [regs EXCEPT !.a = val \div 256, !.f = BitAnd(val, 240) % 256]

bc(regs) == BitOr(regs.b * 256, regs.c)
set_bc(regs, val) == [regs EXCEPT !.b = val \div 256, !.c = val % 256]

de(regs) == BitOr(regs.d * 256, regs.e)
set_de(regs, val) == [regs EXCEPT !.d = val \div 256, !.e = val % 256]

hl(regs) == BitOr(regs.h * 256, regs.l)
set_hl(regs, val) == [regs EXCEPT !.h = val \div 256, !.l = val % 256]

get_8bit_register(regs, register) ==
    CASE register = "A" -> regs.a
      [] register = "B" -> regs.b
      [] register = "C" -> regs.c
      [] register = "D" -> regs.d
      [] register = "E" -> regs.e
      [] register = "H" -> regs.h
      [] register = "L" -> regs.l

set_8bit_register(regs, register, value) ==
    CASE register = "A" -> [regs EXCEPT !.a = value]
      [] register = "B" -> [regs EXCEPT !.b = value]
      [] register = "C" -> [regs EXCEPT !.c = value]
      [] register = "D" -> [regs EXCEPT !.d = value]
      [] register = "E" -> [regs EXCEPT !.e = value]
      [] register = "H" -> [regs EXCEPT !.h = value]
      [] register = "L" -> [regs EXCEPT !.l = value]

get_16bit_register(regs, register) ==
    CASE register = "AF" -> af(regs)
      [] register = "BC" -> bc(regs)
      [] register = "DE" -> de(regs)
      [] register = "HL" -> hl(regs)
      [] register = "SP" -> regs.sp
      [] register = "PC" -> regs.pc

set_16bit_register(regs, register, value) ==
    CASE register = "AF" -> set_af(regs, value)
      [] register = "BC" -> set_bc(regs, value)
      [] register = "DE" -> set_de(regs, value)
      [] register = "HL" -> set_hl(regs, value)
      [] register = "SP" -> [regs EXCEPT !.sp = value]
      [] register = "PC" -> [regs EXCEPT !.pc = value]

get_flag(regs, flag) == BitAnd(regs.f, flag) # 0

set_flag(regs, flag, val) ==
    IF val THEN [regs EXCEPT !.f = BitOr(regs.f, flag)]
    ELSE [regs EXCEPT !.f = BitAnd(regs.f, BitNot8(flag))]

clear_flag(regs, flag) == [regs EXCEPT !.f = BitAnd(regs.f, BitNot8(flag))]

flip_flag(regs, flag) == [regs EXCEPT !.f = BitXor(regs.f, flag)]

clear_all_flags(regs) == [regs EXCEPT !.f = 0]

\* self.sp += 1, self.sp -= 1, self.pc += 1: unchecked arithmetic on u16
increment_sp(regs) == [regs EXCEPT !.sp = Wrap16(regs.sp + 1)]
decrement_sp(regs) == [regs EXCEPT !.sp = Wrap16(regs.sp - 1)]
increment_pc(regs) == [regs EXCEPT !.pc = Wrap16(regs.pc + 1)]

\* The interrupt master enable the dispatch consults (registers.ime()).
ime(regs) == regs.ime
set_ime(regs, val) == [regs EXCEPT !.ime = val]

-----------------------------------------------------------------------------
(* mmu/mod.rs *)

ROM_BANK_SIZE == 16384

\* from_address with the I/O arm one address too long: 0xFF80 decodes to IO.
from_address_long_io(address) ==
    CASE address >= 0 /\ address <= 16383 -> "RomBankZero"
      [] address >= 16384 /\ address <= 32767 -> "RomBankSwap"
      [] address >= 32768 /\ address <= 40959 -> "VideoRam"
      [] address >= 40960 /\ address <= 49151 -> "ExternalRam"
      [] address >= 49152 /\ address <= 57343 -> "WorkRam"
      [] address >= 57344 /\ address <= 65023 -> "EchoRam"
      [] address >= 65024 /\ address <= 65183 -> "SpriteAttributionTable"
      [] address >= 65184 /\ address <= 65279 -> "Unusable"
      [] address >= 65280 /\ address <= 65408 -> "IO"
      [] address >= 65409 /\ address <= 65534 -> "HighRam"
      [] address = 65535 -> "InterruptEnableRegister"
      [] OTHER -> "Illegal"

\* MemoryRegion::from_address; "Illegal" stands for the Err it returns.
from_address(address) ==
    CASE address >= 0 /\ address <= 16383 -> "RomBankZero"
      [] address >= 16384 /\ address <= 32767 -> "RomBankSwap"
      [] address >= 32768 /\ address <= 40959 -> "VideoRam"
      [] address >= 40960 /\ address <= 49151 -> "ExternalRam"
      [] address >= 49152 /\ address <= 57343 -> "WorkRam"
      [] address >= 57344 /\ address <= 65023 -> "EchoRam"
      [] address >= 65024 /\ address <= 65183 -> "SpriteAttributionTable"
      [] address >= 65184 /\ address <= 65279 -> "Unusable"
      [] address >= 65280 /\ address <= 65407 -> "IO"
      [] address >= 65408 /\ address <= 65534 -> "HighRam"
      [] address = 65535 -> "InterruptEnableRegister"
      [] OTHER -> "Illegal"

\* The discriminant of a MemoryRegion: the first address of the region.
RegionBase(region) ==
    CASE region = "RomBankZero" -> 0
      [] region = "RomBankSwap" -> 16384
      [] region = "VideoRam" -> 32768
      [] region = "ExternalRam" -> 40960
      [] region = "WorkRam" -> 49152
      [] region = "EchoRam" -> 57344
      [] region = "SpriteAttributionTable" -> 65024
      [] region = "Unusable" -> 65184
      [] region = "IO" -> 65280
      [] region = "HighRam" -> 65408
      [] region = "InterruptEnableRegister" -> 65535

\* The array of the Mmu that backs a region.
RegionField(region) ==
    CASE region = "RomBankZero" -> "rom_bank_zero"
      [] region = "RomBankSwap" -> "rom_bank_swap"
      [] region = "VideoRam" -> "video_ram"
      [] region = "ExternalRam" -> "external_ram"
      [] region = "WorkRam" -> "work_ram"
      [] region = "EchoRam" -> "echo_ram"
      [] region = "SpriteAttributionTable" -> "sprite_attribution_table"
      [] region = "Unusable" -> "unusable"
      [] region = "IO" -> "io"
      [] region = "HighRam" -> "high_ram"
      [] region = "InterruptEnableRegister" -> "interrupt_enable_register"

\* The length of the array that backs a region (the *_SIZE constants).
RegionSize(region) ==
    CASE region = "RomBankZero" -> ROM_BANK_SIZE
      [] region = "RomBankSwap" -> ROM_BANK_SIZE
      [] region = "VideoRam" -> 8192
      [] region = "ExternalRam" -> 8192
      [] region = "WorkRam" -> 8192
      [] region = "EchoRam" -> 7680
      [] region = "SpriteAttributionTable" -> 160
      [] region = "Unusable" -> 96
      [] region = "IO" -> 128
      [] region = "HighRam" -> 127
      [] region = "InterruptEnableRegister" -> 1

\* The seeds of rand::random(): one stands for one random filling of the work RAM.
WorkRamSeeds == {0, 90}

\* The byte a random filling puts at an offset of the work RAM.
WorkRamRandom(seed, offset) == (seed + 7 * offset) % 256

\* Mmu::new(): every array zeroed, the external RAM 0xFF, the work RAM random.
MmuNew(seed) ==
    [rom_bank_zero |-> <<>>, rom_bank_swap |-> <<>>, video_ram |-> <<>>,
     external_ram |-> <<>>, work_ram |-> <<>>, echo_ram |-> <<>>,
     sprite_attribution_table |-> <<>>, unusable |-> <<>>, io |-> <<>>,
     high_ram |-> <<>>, interrupt_enable_register |-> <<>>,
     work_ram_random |-> seed, cartridge_data |-> <<>>]

\* The byte an array holds at an offset nothing was stored to.
InitialByte(mm, region, offset) ==
    CASE region = "ExternalRam" -> 255
      [] region = "WorkRam" -> WorkRamRandom(mm.work_ram_random, offset)
      [] OTHER -> 0

\* array[relative_address]
ArrayGet(mm, region, offset) ==
    LET array == mm[RegionField(region)] IN
    IF offset \in DOMAIN array THEN array[offset] ELSE InitialByte(mm, region, offset)

\* array[relative_address] = value
ArraySet(mm, region, offset, value) ==
    LET array == mm[RegionField(region)] IN
    [mm EXCEPT ![RegionField(region)] =
        [o \in DOMAIN array \cup {offset} |-> IF o = offset THEN value ELSE array[o]]]

\* The cell a legal address decodes to, as read_byte, write_byte and get_byte_ref
\* index it: region array, address - region as usize.
CellOf(mm, address) ==
    LET region == from_address(address) IN
    ArrayGet(mm, region, address - RegionBase(region))

\* read_byte, write_byte and get_byte_ref return Err for an address from_address rejects.
LegalAddress(address) == from_address(address) # "Illegal"

read_byte(mm, address) ==
    IF address = 65348 THEN 144 ELSE CellOf(mm, address)

\* write_byte with a store arm for every region.
write_byte_open(mm, address, value) ==
    LET region == from_address(address) IN
    IF region = "Illegal"
    THEN [ok |-> FALSE, mmu |-> mm]
    ELSE [ok |-> TRUE, mmu |-> ArraySet(mm, region, address - RegionBase(region), value)]

\* write_byte: [ok, mmu]; ok = FALSE is the Err, which stores nothing.
write_byte(mm, address, value) ==
    LET region == from_address(address) IN
    IF region \in {"Illegal", "RomBankZero", "RomBankSwap", "EchoRam"}
    THEN [ok |-> FALSE, mmu |-> mm]
    ELSE [ok |-> TRUE, mmu |-> ArraySet(mm, region, address - RegionBase(region), value)]

\* *get_byte_ref(address): the cell itself, without the LY stub of read_byte.
get_byte_ref(mm, address) == CellOf(mm, address)

\* *get_byte_ref(address) = value: every region hands out its cell.
set_byte_ref(mm, address, value) ==
    LET region == from_address(address) IN
    ArraySet(mm, region, address - RegionBase(region), value)

\* The bytes of a cartridge image: a program at 0x0100, zero elsewhere, 32 KiB.
CartridgeByte(data, offset) == IF offset \in DOMAIN data THEN data[offset] ELSE 0

\* load_cartridge: both banks are overwritten with the 16 KiB slices of the image.
load_cartridge(mm, data) ==
    [mm EXCEPT !.cartridge_data = data,
               !.rom_bank_zero = [o \in {x \in DOMAIN data : x < ROM_BANK_SIZE} |-> data[o]],
               !.rom_bank_swap = [o \in {x - ROM_BANK_SIZE : x \in {y \in DOMAIN data : y >= ROM_BANK_SIZE}}
                                    |-> data[o + ROM_BANK_SIZE]]]

-----------------------------------------------------------------------------
(* mmu/io.rs: the typed accessors; each setter unwraps a write to an I/O or IE cell *)

sb(mm) == read_byte(mm, 65281)
sc(mm) == read_byte(mm, 65282)
set_sc(mm, val) == write_byte(mm, 65282, val).mmu
div(mm) == read_byte(mm, 65284)
set_div(mm, val) == write_byte(mm, 65284, val).mmu
tima(mm) == read_byte(mm, 65285)
set_tima(mm, val) == write_byte(mm, 65285, val).mmu
tma(mm) == read_byte(mm, 65286)
tac(mm) == read_byte(mm, 65287)
iflag(mm) == read_byte(mm, 65295)
set_iflag(mm, val) == write_byte(mm, 65295, val).mmu
ie(mm) == read_byte(mm, 65535)

\* Mmu::ime reads 0xFFFF; Mmu::set_ime writes 0xFF78.
mmu_ime(mm) == read_byte(mm, 65535)
mmu_set_ime(mm, val) == write_byte(mm, 65400, val).mmu

-----------------------------------------------------------------------------
(* The state after construction: Rainier::new() *)

\* None, the empty slot of the sprite buffer.
None == <<>>

\* Ppu::new: an empty sprite buffer, OAMScan(0), no T-cycle counted.
PpuNew ==
    [sprite_buffer |-> [i \in 0 .. 9 |-> None],
     current_mode |-> [mode |-> "OAMScan", sprite_id |-> 0],
     current_t_cycles_count |-> 0]

Constructed(seed, checks) ==
    /\ registers = RegistersNew
    /\ ppu = PpuNew
    /\ mmu = MmuNew(seed)
    /\ serial_log = <<>>
    /\ cycles = 0
    /\ fault = "none"
    /\ overflow_checks = checks
    /\ phase = "new"
    /\ hist = <<>>
    /\ steps = 0

-----------------------------------------------------------------------------
(* The MMU driven through read_byte, write_byte and get_byte_ref *)

\* The bound on the number of stores of the MMU specification.
MaxStores == 2

\* Both ends of every region, and the addresses the I/O accessors name.
MmuAddresses ==
    {0, 16383, 16384, 32767, 32768, 40959, 40960, 49151, 49152, 56831, 57343, 57344,
     65023, 65024, 65183, 65184, 65279, 65280, 65348, 65407, 65408, 65534, 65535}

MmuBytes == {0, 90}

\* The addresses stored to through a reference: ROM, work RAM, echo RAM, IE.
MmuRefAddresses == {0, 32767, 49152, 57344, 65023, 65535}

InitMmu == \E seed \in WorkRamSeeds : Constructed(seed, FALSE)

\* mmu.write_byte(address, value), the Result kept
MmuWrite ==
    \E address \in MmuAddresses, value \in MmuBytes :
        LET w == write_byte(mmu, address, value) IN
        /\ steps < MaxStores
        /\ steps' = steps + 1
        /\ mmu' = w.mmu
        /\ hist' = <<[op |-> "write_byte", address |-> address, value |-> value,
                      ok |-> w.ok, before |-> mmu]>>
        /\ UNCHANGED <<registers, serial_log, cycles, fault, overflow_checks, ppu, phase>>

\* *mmu.get_byte_ref(address).unwrap() = value
MmuStoreRef ==
    \E address \in MmuRefAddresses, value \in MmuBytes :
        /\ steps < MaxStores
        /\ steps' = steps + 1
        /\ mmu' = set_byte_ref(mmu, address, value)
        /\ hist' = <<[op |-> "get_byte_ref", address |-> address, value |-> value,
                      ok |-> TRUE, before |-> mmu]>>
        /\ UNCHANGED <<registers, serial_log, cycles, fault, overflow_checks, ppu, phase>>

NextMmu == MmuWrite \/ MmuStoreRef

SpecMmu == InitMmu /\ [][NextMmu]_vars

\* The echo addresses among the sampled ones.
EchoAddresses == {a \in MmuAddresses : from_address(a) = "EchoRam"}

\* C2: every echo address reads the byte of the work RAM cell it mirrors.
C2_EchoMirrorsWorkRam ==
    \A a \in EchoAddresses : read_byte(mmu, a) = read_byte(mmu, a - 8192)

\* C17: write_byte(a, v) is an Err that leaves every cell as it was for a in
\* 0x0000..=0x7FFF (ROM) and 0xE000..=0xFDFF (Echo RAM), and Ok for every other
\* address up to 0xFFFF.
C17_WriteRejectsRomAndEcho ==
    (hist # <<>> /\ hist[1].op = "write_byte" /\ hist[1].address <= 65535) =>
        IF hist[1].address \in (0..32767) \cup (57344..65023)
        THEN ~hist[1].ok /\ mmu = hist[1].before
        ELSE hist[1].ok

\* A store to work RAM was accepted, then a store to the first echo address refused.
C17_Witness ==
    /\ steps = 2
    /\ hist[1].op = "write_byte"
    /\ hist[1].address = 57344
    /\ hist[1].value = 90
    /\ ~hist[1].ok
    /\ read_byte(mmu, 49152) = 90

\* The echo address that mirrors a work RAM address on the hardware, if it has one.
EchoAlias(address) ==
    IF address >= 49152 /\ address <= 56831 THEN {address + 8192} ELSE {}

\* The offset write_byte and read_byte index the array of an address with is inside it.
InRange(address) ==
    LET region == from_address(address) IN
    (address - RegionBase(region)) \in 0 .. (RegionSize(region) - 1)

\* C38: a successful write_byte(a, v) makes read_byte(a) = v (a # 0xFF44), leaves
\* read_byte(b) as it was for every other address b outside the echo alias of a,
\* and indexes the array of its region in range, the region boundaries included.
C38_CellsIndependent ==
    (hist # <<>> /\ hist[1].op = "write_byte" /\ hist[1].ok) =>
        LET a == hist[1].address IN
        /\ InRange(a)
        /\ a # 65348 => read_byte(mmu, a) = hist[1].value
        /\ \A b \in MmuAddresses \ ({a} \cup EchoAlias(a)) :
               InRange(b) /\ read_byte(mmu, b) = read_byte(hist[1].before, b)

\* IE holds 0x5A, then the last byte of the high RAM is stored next to it.
C38_Witness ==
    /\ steps = 2
    /\ hist[1].op = "write_byte"
    /\ hist[1].ok
    /\ hist[1].address = 65534
    /\ hist[1].value = 0
    /\ read_byte(hist[1].before, 65535) = 90
    /\ read_byte(mmu, 65535) = 90
    /\ read_byte(mmu, 65534) = 0

-----------------------------------------------------------------------------
(* cpu/instruction_set.rs: the helper functions of the instruction table.
   An effect maps a machine state [registers, mmu, fault] to the next one;
   a fault other than "none" is the panic that ended the process. *)

\* diagnostic holds the arguments of the panic message of an unimplemented opcode.
Machine(regs, mm) == [registers |-> regs, mmu |-> mm, fault |-> "none", diagnostic |-> <<>>]

Panic(st, why) == [st EXCEPT !.fault = why]

\* Statement sequencing: nothing runs after a panic.
Then(st, Op(_)) == IF st.fault # "none" THEN st ELSE Op(st)

\* An unchecked arithmetic result: a panic with overflow checks, wrapped without.
Checked(st, overflows, Op(_)) ==
    IF overflows /\ overflow_checks THEN Panic(st, "overflow") ELSE Op(st)

WithRegisters(st, regs) == [st EXCEPT !.registers = regs]

RECURSIVE set_flags(_, _)
\* A run of set_*_flag calls, in order.
set_flags(regs, calls) ==
    IF calls = <<>> THEN regs
    ELSE set_flags(set_flag(regs, Head(calls)[1], Head(calls)[2]), Tail(calls))

\* registers.decrement_sp() / increment_sp() inside an instruction
DecrementSp(st) ==
    Checked(st, st.registers.sp = 0, LAMBDA s : WithRegisters(s, decrement_sp(s.registers)))

IncrementSp(st) ==
    Checked(st, st.registers.sp = 65535, LAMBDA s : WithRegisters(s, increment_sp(s.registers)))

\* mmu.write_byte(address, value).unwrap()
ld_8bit_mem(st, address, value) ==
    LET w == write_byte(st.mmu, address, value) IN
    IF w.ok THEN [st EXCEPT !.mmu = w.mmu] ELSE Panic(st, "unwrap")

ld_8bit(st, register, value) ==
    WithRegisters(st, set_8bit_register(st.registers, register, value))

ld_16bit(st, register, value) ==
    WithRegisters(st, set_16bit_register(st.registers, register, value))

inc_8bit(st, register) ==
    LET original_value == get_8bit_register(st.registers, register)
        new_value == original_value + 1
    IN  Checked(st, Overflows8(new_value), LAMBDA s :
            LET r1 == set_8bit_register(s.registers, register, Wrap8(new_value))
                r2 == IF Wrap8(new_value) = 0 THEN set_flag(r1, FlagZero, TRUE) ELSE r1
            IN  WithRegisters(s, set_flags(r2,
                    <<<<FlagSubtraction, FALSE>>,
                      <<FlagHalfCarry, carry_check_add_8bit(original_value, 1)>>>>)))

dec_8bit(st, register) ==
    LET original_value == get_8bit_register(st.registers, register)
        new_value == original_value - 1
    IN  Checked(st, Overflows8(new_value), LAMBDA s :
            LET r1 == set_8bit_register(s.registers, register, Wrap8(new_value)) IN
            Checked(s, carry_check_sub_8bit_overflows(original_value, 1), LAMBDA t :
                WithRegisters(t, set_flags(r1,
                    <<<<FlagZero, Wrap8(new_value) = 0>>,
                      <<FlagSubtraction, TRUE>>,
                      <<FlagHalfCarry, carry_check_sub_8bit(original_value, 1)>>>>))))

inc_16bit(st, register) ==
    LET new_value == get_16bit_register(st.registers, register) + 1 IN
    Checked(st, Overflows16(new_value), LAMBDA s :
        WithRegisters(s, set_16bit_register(s.registers, register, Wrap16(new_value))))

dec_16bit(st, register) ==
    LET new_value == get_16bit_register(st.registers, register) - 1 IN
    Checked(st, Overflows16(new_value), LAMBDA s :
        WithRegisters(s, set_16bit_register(s.registers, register, Wrap16(new_value))))

inc_mem(st, address) ==
    LET original_value == read_byte(st.mmu, address)
        new_value == original_value + 1
    IN  Checked(st, Overflows8(new_value), LAMBDA s :
            Then(ld_8bit_mem(s, address, Wrap8(new_value)), LAMBDA t :
                WithRegisters(t, set_flags(t.registers,
                    <<<<FlagZero, Wrap8(new_value) = 0>>,
                      <<FlagSubtraction, FALSE>>,
                      <<FlagHalfCarry, carry_check_add_8bit(original_value, 1)>>>>))))

dec_mem(st, address) ==
    LET original_value == read_byte(st.mmu, address)
        new_value == original_value - 1
    IN  Checked(st, Overflows8(new_value), LAMBDA s :
            Then(ld_8bit_mem(s, address, Wrap8(new_value)), LAMBDA t :
                Checked(t, carry_check_sub_8bit_overflows(original_value, 1), LAMBDA u :
                    WithRegisters(u, set_flags(u.registers,
                        <<<<FlagZero, Wrap8(new_value) = 0>>,
                          <<FlagSubtraction, TRUE>>,
                          <<FlagHalfCarry, carry_check_sub_8bit(original_value, 1)>>>>)))))

jmp(st, lower_order_byte, higher_order_byte) ==
    WithRegisters(st, set_16bit_register(st.registers, "PC",
                          concatenate_bytes(lower_order_byte, higher_order_byte)))

jp(st, address) == WithRegisters(st, set_16bit_register(st.registers, "PC", address))

\* current_pc and steps are i16: the sum overflows outside -32768..32767.
jr(st, offset) ==
    LET current_pc == IF st.registers.pc >= 32768 THEN st.registers.pc - 65536
                      ELSE st.registers.pc
        signed == IF offset >= 128 THEN offset - 256 ELSE offset
        sum == current_pc + signed
    IN  Checked(st, sum > 32767 \/ sum < -32768, LAMBDA s :
            WithRegisters(s, set_16bit_register(s.registers, "PC", Wrap16(sum))))

\* The flags an 8-bit addition leaves: Z 0 H C
AddFlags(regs, sum, left_operator, right_operator) ==
    set_flags(regs,
        <<<<FlagZero, sum = 0>>,
          <<FlagSubtraction, FALSE>>,
          <<FlagHalfCarry, carry_check_add_8bit(left_operator, right_operator)>>,
          <<FlagCarry, left_operator + right_operator > 255>>>>)

add(st, left_operator, right_operator) ==
    LET sum == left_operator + right_operator IN
    Checked(st, Overflows8(sum), LAMBDA s :
        WithRegisters(s, AddFlags(set_8bit_register(s.registers, "A", Wrap8(sum)),
                                  Wrap8(sum), left_operator, right_operator)))

\* The carry joins the sum; the half-carry and the carry ignore it.
adc(st, left_operator, right_operator) ==
    LET carry == IF get_flag(st.registers, FlagCarry) THEN 1 ELSE 0
        sum == left_operator + right_operator + carry
    IN  Checked(st, Overflows8(sum), LAMBDA s :
            WithRegisters(s, AddFlags(set_8bit_register(s.registers, "A", Wrap8(sum)),
                                      Wrap8(sum), left_operator, right_operator)))

\* The carry_check_add_16bit instruction_set.rs imports: the carry out of bit 11.
carry_check_add_16bit(x, y) == (x % 4096) + (y % 4096) > 4095

add_16bit(st, register, value) ==
    LET left_operand == get_16bit_register(st.registers, register)
        sum == left_operand + value
    IN  Checked(st, Overflows16(sum), LAMBDA s :
            WithRegisters(s, set_flags(
                set_16bit_register(s.registers, register, Wrap16(sum)),
                <<<<FlagZero, Wrap16(sum) = 0>>,
                  <<FlagSubtraction, FALSE>>,
                  <<FlagHalfCarry, carry_check_add_16bit(left_operand, value)>>,
                  <<FlagCarry, left_operand + value > 65535>>>>)))

\* todo!()
add_8bit_signed(st, register, value) == Panic(st, "todo")

\* The flags an 8-bit subtraction leaves: Z 1 H C
SubFlags(st, regs, difference, left_operator, right_operator) ==
    Checked(st, carry_check_sub_8bit_overflows(left_operator, right_operator), LAMBDA s :
        WithRegisters(s, set_flags(regs,
            <<<<FlagZero, difference = 0>>,
              <<FlagSubtraction, TRUE>>,
              <<FlagHalfCarry, carry_check_sub_8bit(left_operator, right_operator)>>,
              <<FlagCarry, left_operator - right_operator < 0>>>>)))

sub(st, left_operator, right_operator) ==
    LET difference == left_operator - right_operator IN
    Checked(st, Overflows8(difference), LAMBDA s :
        SubFlags(s, set_8bit_register(s.registers, "A", Wrap8(difference)),
                 Wrap8(difference), left_operator, right_operator))

sbc(st, left_operator, right_operator) ==
    LET carry == IF get_flag(st.registers, FlagCarry) THEN 1 ELSE 0
        difference == left_operator - right_operator - carry
    IN  Checked(st, Overflows8(difference), LAMBDA s :
            SubFlags(s, set_8bit_register(s.registers, "A", Wrap8(difference)),
                     Wrap8(difference), left_operator, right_operator))

cp(st, left_operator, right_operator) ==
    LET difference == left_operator - right_operator IN
    Checked(st, Overflows8(difference), LAMBDA s :
        SubFlags(s, s.registers, Wrap8(difference), left_operator, right_operator))

\* and, or, xor: the result goes to A; Z 0 H 0
Logic(st, result, half_carry) ==
    WithRegisters(st, set_flags(set_8bit_register(st.registers, "A", result),
        <<<<FlagZero, result = 0>>,
          <<FlagSubtraction, FALSE>>,
          <<FlagHalfCarry, half_carry>>,
          <<FlagCarry, FALSE>>>>))

and(st, left_operator, right_operator) ==
    Logic(st, BitAnd(left_operator, right_operator), TRUE)

or(st, left_operator, right_operator) ==
    Logic(st, BitOr(left_operator, right_operator), FALSE)

xor(st, left_operator, right_operator) ==
    Logic(st, BitXor(left_operator, right_operator), FALSE)

\* call with the return address stored the other way round: high byte at SP-1.
call_swapped(st, lower_byte, higher_byte) ==
    LET jump_address == concatenate_bytes(lower_byte, higher_byte)
        return_lower == split_2bytes(st.registers.pc)[1]
        return_higher == split_2bytes(st.registers.pc)[2]
    IN  Then(Then(Then(Then(DecrementSp(st),
            LAMBDA s : ld_8bit_mem(s, s.registers.sp, return_higher)),
            LAMBDA s : DecrementSp(s)),
            LAMBDA s : ld_8bit_mem(s, s.registers.sp, return_lower)),
            LAMBDA s : WithRegisters(s, set_16bit_register(s.registers, "PC", jump_address)))

\* The return address goes on the stack: low byte at SP-1, high byte at SP-2.
call(st, lower_byte, higher_byte) ==
    LET jump_address == concatenate_bytes(lower_byte, higher_byte)
        return_lower == split_2bytes(st.registers.pc)[1]
        return_higher == split_2bytes(st.registers.pc)[2]
    IN  Then(Then(Then(Then(DecrementSp(st),
            LAMBDA s : ld_8bit_mem(s, s.registers.sp, return_lower)),
            LAMBDA s : DecrementSp(s)),
            LAMBDA s : ld_8bit_mem(s, s.registers.sp, return_higher)),
            LAMBDA s : WithRegisters(s, set_16bit_register(s.registers, "PC", jump_address)))

push(st, value) ==
    LET value_lower == split_2bytes(value)[1]
        value_higher == split_2bytes(value)[2]
    IN  Then(Then(Then(DecrementSp(st),
            LAMBDA s : ld_8bit_mem(s, s.registers.sp, value_lower)),
            LAMBDA s : DecrementSp(s)),
            LAMBDA s : ld_8bit_mem(s, s.registers.sp, value_higher))

\* pop with the two bytes read handed to concatenate_bytes in the other order.
pop_swapped(st, register) ==
    LET value_higher == read_byte(st.mmu, st.registers.sp) IN
    Then(IncrementSp(st), LAMBDA s :
        LET value_lower == read_byte(s.mmu, s.registers.sp) IN
        Then(IncrementSp(s), LAMBDA t :
            WithRegisters(t, set_16bit_register(t.registers, register,
                                 concatenate_bytes(value_higher, value_lower)))))

pop(st, register) ==
    LET value_higher == read_byte(st.mmu, st.registers.sp) IN
    Then(IncrementSp(st), LAMBDA s :
        LET value_lower == read_byte(s.mmu, s.registers.sp) IN
        Then(IncrementSp(s), LAMBDA t :
            WithRegisters(t, set_16bit_register(t.registers, register,
                                 concatenate_bytes(value_lower, value_higher)))))

ret(st) == pop(st, "PC")

bit(st, value, bit_position) ==
    LET bit_check == BitAnd(value, Shl1(bit_position)) IN
    WithRegisters(st, set_flags(st.registers,
        <<<<FlagZero, bit_check = 0>>,
          <<FlagSubtraction, FALSE>>,
          <<FlagHalfCarry, TRUE>>>>))

\* *value &= !(1 << bit_position)
res(value, bit_position) == BitAnd(value, BitNot8(Shl1(bit_position)))

\* *value ^= 1 << bit_position
set(value, bit_position) == BitXor(value, Shl1(bit_position))

cpl(st) ==
    WithRegisters(st, set_flags([st.registers EXCEPT !.a = BitNot8(st.registers.a)],
        <<<<FlagSubtraction, TRUE>>, <<FlagHalfCarry, TRUE>>>>))

ccf(st) ==
    WithRegisters(st, set_flags(st.registers,
        <<<<FlagCarry, ~get_flag(st.registers, FlagCarry)>>,
          <<FlagSubtraction, FALSE>>,
          <<FlagHalfCarry, FALSE>>>>))

\* The operand column of the register tables: the index opcode % 8 selects it.
RegisterOf(i) == <<"B", "C", "D", "E", "H", "L", "(HL)", "A">>[i + 1]

\* The &mut u8 a CB instruction works on: r.x_ref(), or m.get_byte_ref(r.hl()).
TargetGet(st, target) ==
    IF target = "(HL)" THEN get_byte_ref(st.mmu, hl(st.registers))
    ELSE get_8bit_register(st.registers, target)

\* A register reference writes the field itself: a_ref() ... l_ref() do not mask.
TargetSet(st, target, value) ==
    IF target = "(HL)" THEN [st EXCEPT !.mmu = set_byte_ref(st.mmu, hl(st.registers), value)]
    ELSE WithRegisters(st, set_8bit_register(st.registers, target, value))

swap(st, target) ==
    LET value == TargetGet(st, target)
        higher_bits == value \div 16
        lower_bits == value % 16
        new_value == BitOr(lower_bits * 16, higher_bits)
        s == TargetSet(st, target, new_value)
    IN  WithRegisters(s, set_flags(s.registers,
            <<<<FlagZero, new_value = 0>>,
              <<FlagSubtraction, FALSE>>,
              <<FlagHalfCarry, FALSE>>,
              <<FlagCarry, FALSE>>>>))

\* new_value is computed and never stored; the carry is new_value == 1.
srl(st, target) ==
    LET value == TargetGet(st, target)
        new_value == value \div 2
    IN  WithRegisters(st, set_flags(st.registers,
            <<<<FlagZero, new_value = 0>>,
              <<FlagSubtraction, FALSE>>,
              <<FlagHalfCarry, FALSE>>,
              <<FlagCarry, new_value = 1>>>>))

-----------------------------------------------------------------------------
(* cpu/instruction_set.rs: the two instruction tables of InstructionSet::new.
   name stands for the mnemonic: "" is the default entry nothing was assigned to.
   operation is the arity of the closure; Operation8 and Operation16 are its body. *)

Instruction(name, length, cycles_, operation) ==
    [name |-> name, length |-> length, cycles |-> cycles_, operation |-> operation]

\* Instruction::default()
InstructionDefault == Instruction("", 0, 0, "None")

instructions_8bit(opcode) ==
    CASE opcode = 0 -> Instruction("NOP", 1, 1, "None")
      [] opcode \in {1, 17, 33, 49} -> Instruction("LD rr, d16", 3, 3, "Binary")
      [] opcode \in {2, 18, 34, 50} -> Instruction("LD (rr), A", 1, 2, "Nullary")
      [] opcode \in {3, 19, 35, 51} -> Instruction("INC rr", 1, 2, "Nullary")
      [] opcode \in {4, 12, 20, 28, 36, 44, 60} -> Instruction("INC r", 1, 1, "Nullary")
      [] opcode \in {5, 13, 21, 29, 37, 45, 61} -> Instruction("DEC r", 1, 1, "Nullary")
      [] opcode \in {6, 14, 22, 30, 38, 46, 62} -> Instruction("LD r, d8", 2, 2, "Unary")
      [] opcode = 8 -> Instruction("LD (a16), SP", 3, 5, "Binary")
      [] opcode \in {9, 25, 41, 57} -> Instruction("ADD HL, rr", 1, 2, "Nullary")
      [] opcode \in {10, 26, 42, 58} -> Instruction("LD A, (rr)", 1, 2, "Nullary")
      \* 0x2B is never assigned: DEC HL is stored at 0x3B and overwritten by DEC SP
      [] opcode \in {11, 27, 59} -> Instruction("DEC rr", 1, 2, "Nullary")
      [] opcode = 24 -> Instruction("JR s8", 2, 3, "Unary")
      [] opcode \in {32, 40, 48, 56} -> Instruction("JR cc, s8", 2, 3, "Unary")
      [] opcode = 47 -> Instruction("CPL", 1, 1, "Nullary")
      [] opcode = 52 -> Instruction("INC (HL)", 1, 2, "Nullary")
      [] opcode = 53 -> Instruction("DEC (HL)", 1, 2, "Nullary")
      [] opcode = 54 -> Instruction("LD (HL), d8", 2, 3, "Unary")
      [] opcode = 63 -> Instruction("CCF", 1, 1, "Nullary")
      [] opcode >= 64 /\ opcode <= 127 /\ opcode # 118 ->
            Instruction("LD r, r", 1, 1, "Nullary")
      [] opcode >= 128 /\ opcode <= 191 ->
            Instruction("ALU A, r", 1, IF opcode % 8 = 6 THEN 2 ELSE 1, "Nullary")
      [] opcode \in {192, 200, 208, 216} -> Instruction("RET cc", 1, 5, "Nullary")
      [] opcode \in {193, 209, 225, 241} -> Instruction("POP rr", 1, 3, "Nullary")
      [] opcode \in {194, 202, 210, 218} -> Instruction("JP cc, a16", 3, 4, "Binary")
      [] opcode = 195 -> Instruction("JP a16", 3, 2, "Binary")
      \* 0xD4 is never assigned: CALL NC is stored at 0xC4, over CALL NZ
      [] opcode \in {196, 204, 220} -> Instruction("CALL cc, a16", 3, 6, "Binary")
      [] opcode \in {197, 213, 229, 245} -> Instruction("PUSH rr", 1, 4, "Nullary")
      [] opcode \in {198, 206, 214, 222, 230, 238, 246, 254} ->
            Instruction("ALU A, d8", 2, 2, "Unary")
      [] opcode \in {199, 207, 215, 223, 231, 239, 247, 255} ->
            Instruction("RST n", 1, 4, "Nullary")
      [] opcode = 201 -> Instruction("RET", 1, 4, "Nullary")
      [] opcode = 205 -> Instruction("CALL a16", 3, 6, "Binary")
      [] opcode = 224 -> Instruction("LD (a8), A", 2, 4, "Unary")
      [] opcode = 226 -> Instruction("LD (C), A", 1, 2, "Nullary")
      [] opcode = 232 -> Instruction("ADD SP, s8", 1, 2, "Unary")
      [] opcode = 234 -> Instruction("LD (a16), A", 3, 4, "Binary")
      [] opcode = 240 -> Instruction("LD A, (a8)", 2, 3, "Unary")
      [] opcode = 242 -> Instruction("LD A, (C)", 1, 2, "Nullary")
      [] opcode = 243 -> Instruction("DI", 1, 1, "Nullary")
      [] opcode = 250 -> Instruction("LD A, (a16)", 3, 4, "Binary")
      [] opcode = 251 -> Instruction("EI", 1, 1, "Nullary")
      [] OTHER -> InstructionDefault

instructions_16bit(opcode) ==
    CASE opcode >= 48 /\ opcode <= 55 -> Instruction("SWAP r", 2, 2, "Nullary")
      [] opcode >= 56 /\ opcode <= 63 -> Instruction("SRL r", 2, 2, "Nullary")
      [] opcode >= 64 /\ opcode <= 127 -> Instruction("BIT b, r", 2, 2, "Nullary")
      [] opcode >= 128 /\ opcode <= 191 -> Instruction("RES b, r", 2, 2, "Nullary")
      [] opcode >= 192 /\ opcode <= 255 -> Instruction("SET b, r", 2, 2, "Nullary")
      [] OTHER -> InstructionDefault

\* The number of operand bytes run_next_opcode reads for an operation.
OperandCount(operation) ==
    CASE operation = "Unary" -> 1
      [] operation = "Binary" -> 2
      [] OTHER -> 0

\* The register pair of the rows 0x0_ .. 0x3_, and of PUSH and POP.
PairOf(opcode) == <<"BC", "DE", "HL", "SP">>[(opcode \div 16) + 1]
StackPairOf(opcode) == <<"BC", "DE", "HL", "AF">>[((opcode - 192) \div 16) + 1]

\* The flag test of a conditional closure: r.zero_flag(), r.carry_flag() or its negation.
Condition(regs, cc) ==
    CASE cc = "NZ" -> ~get_flag(regs, FlagZero)
      [] cc = "Z" -> get_flag(regs, FlagZero)
      [] cc = "NC" -> ~get_flag(regs, FlagCarry)
      [] cc = "C" -> get_flag(regs, FlagCarry)

\* The test each conditional opcode was given; 0xC4 holds the closure of CALL NC.
ConditionOf(opcode) ==
    CASE opcode \in {32, 192, 194} -> "NZ"
      [] opcode \in {40, 200, 202, 204} -> "Z"
      [] opcode \in {48, 208, 210, 196} -> "NC"
      [] opcode \in {56, 216, 218, 220} -> "C"

\* r.set_hl(r.hl() + 1) and r.set_hl(r.hl() - 1)
StepHl(st, delta) ==
    LET new_value == hl(st.registers) + delta IN
    Checked(st, Overflows16(new_value), LAMBDA s :
        WithRegisters(s, set_hl(s.registers, Wrap16(new_value))))

\* The address a load through a register pair uses; (HL+) and (HL-) then step HL.
PointerOf(regs, opcode) ==
    CASE opcode \div 16 = 0 -> bc(regs)
      [] opcode \div 16 = 1 -> de(regs)
      [] OTHER -> hl(regs)

AfterPointer(st, opcode) ==
    CASE opcode \div 16 = 2 -> StepHl(st, 1)
      [] opcode \div 16 = 3 -> StepHl(st, -1)
      [] OTHER -> st

\* The closures of the LD loop (0x40 - 0x7F): a source of (HL) calls the
\* source accessor, which is panic!("special case").
LoadRegister(st, opcode) ==
    LET destination == RegisterOf((opcode - 64) \div 8)
        source == RegisterOf(opcode % 8)
    IN  IF source = "(HL)" THEN Panic(st, "special case")
        ELSE IF destination = "(HL)"
             THEN ld_8bit_mem(st, hl(st.registers), get_8bit_register(st.registers, source))
             ELSE ld_8bit(st, destination, get_8bit_register(st.registers, source))

\* The helper an arithmetic opcode calls on A and its operand; 0xA7 calls xor.
Alu(st, opcode, value) ==
    LET left == st.registers.a
        row == (opcode % 64) \div 8
    IN  CASE opcode = 167 -> xor(st, left, value)
          [] row = 0 -> add(st, left, value)
          [] row = 1 -> adc(st, left, value)
          [] row = 2 -> sub(st, left, value)
          [] row = 3 -> sbc(st, left, value)
          [] row = 4 -> and(st, left, value)
          [] row = 5 -> xor(st, left, value)
          [] row = 6 -> or(st, left, value)
          [] row = 7 -> cp(st, left, value)

\* The operand of the rows 0x80 - 0xBF
AluSource(st, opcode) ==
    IF opcode % 8 = 6 THEN read_byte(st.mmu, hl(st.registers))
    ELSE get_8bit_register(st.registers, RegisterOf(opcode % 8))

\* The address RST n calls: call(mmu, registers, lower, higher) as the table passes them.
RstTarget(opcode) ==
    CASE opcode = 199 -> <<0, 0>>
      [] opcode = 207 -> <<0, 8>>
      [] opcode = 215 -> <<16, 0>>
      [] opcode = 223 -> <<0, 24>>
      [] opcode = 231 -> <<0, 32>>
      [] opcode = 239 -> <<0, 40>>
      [] opcode = 247 -> <<0, 48>>
      [] opcode = 255 -> <<0, 56>>

\* LD (a16), SP
StoreSp(st, lower_byte, upper_byte) ==
    LET lower_sp == split_2bytes(st.registers.sp)[1]
        higher_sp == split_2bytes(st.registers.sp)[2]
        address == concatenate_bytes(lower_byte, upper_byte)
    IN  Then(ld_8bit_mem(st, address, lower_sp), LAMBDA s :
            Checked(s, address = 65535, LAMBDA t :
                ld_8bit_mem(t, Wrap16(address + 1), higher_sp)))

\* The closure of an entry of instructions_8bit, applied to the operands read.
Operation8(st, opcode, x, y) ==
    LET regs == st.registers IN
    CASE opcode = 0 -> st
      [] opcode \in {1, 17, 33, 49} -> ld_16bit(st, PairOf(opcode), concatenate_bytes(x, y))
      [] opcode \in {2, 18, 34, 50} ->
            Then(ld_8bit_mem(st, PointerOf(regs, opcode), regs.a),
                 LAMBDA s : AfterPointer(s, opcode))
      [] opcode \in {3, 19, 35, 51} -> inc_16bit(st, PairOf(opcode))
      [] opcode \in {4, 12, 20, 28, 36, 44, 60} -> inc_8bit(st, RegisterOf((opcode - 4) \div 8))
      [] opcode \in {5, 13, 21, 29, 37, 45, 61} -> dec_8bit(st, RegisterOf((opcode - 5) \div 8))
      [] opcode \in {6, 14, 22, 30, 38, 46, 62} -> ld_8bit(st, RegisterOf((opcode - 6) \div 8), x)
      [] opcode = 8 -> StoreSp(st, x, y)
      [] opcode \in {9, 25, 41, 57} ->
            add_16bit(st, "HL", get_16bit_register(regs, PairOf(opcode)))
      [] opcode \in {10, 26, 42, 58} ->
            AfterPointer(ld_8bit(st, "A", read_byte(st.mmu, PointerOf(regs, opcode))), opcode)
      [] opcode \in {11, 27, 59} -> dec_16bit(st, PairOf(opcode))
      [] opcode = 24 -> jr(st, x)
      [] opcode \in {32, 40, 48, 56} ->
            IF Condition(regs, ConditionOf(opcode)) THEN jr(st, x) ELSE st
      [] opcode = 47 -> cpl(st)
      [] opcode = 52 -> inc_mem(st, hl(regs))
      [] opcode = 53 -> dec_mem(st, hl(regs))
      [] opcode = 54 -> ld_8bit_mem(st, hl(regs), x)
      [] opcode = 63 -> ccf(st)
      [] opcode >= 64 /\ opcode <= 127 -> LoadRegister(st, opcode)
      [] opcode >= 128 /\ opcode <= 191 -> Alu(st, opcode, AluSource(st, opcode))
      [] opcode \in {192, 200, 208, 216} ->
            IF Condition(regs, ConditionOf(opcode)) THEN ret(st) ELSE st
      [] opcode \in {193, 209, 225, 241} -> pop(st, StackPairOf(opcode))
      [] opcode \in {194, 202, 210, 218} ->
            IF Condition(regs, ConditionOf(opcode)) THEN jmp(st, x, y) ELSE st
      [] opcode = 195 -> jmp(st, x, y)
      [] opcode \in {196, 204, 220} ->
            IF Condition(regs, ConditionOf(opcode)) THEN call(st, x, y) ELSE st
      [] opcode \in {197, 213, 229, 245} ->
            push(st, get_16bit_register(regs, StackPairOf(opcode)))
      [] opcode \in {198, 206, 214, 222, 230, 238, 246, 254} -> Alu(st, opcode, x)
      [] opcode \in {199, 207, 215, 223, 231, 239, 247, 255} ->
            call(st, RstTarget(opcode)[1], RstTarget(opcode)[2])
      [] opcode = 201 -> ret(st)
      [] opcode = 205 -> call(st, x, y)
      [] opcode = 224 -> ld_8bit_mem(st, concatenate_bytes(x, 255), regs.a)
      [] opcode = 226 -> ld_8bit_mem(st, concatenate_bytes(regs.c, 255), regs.a)
      [] opcode = 232 -> add_8bit_signed(st, "HL", x)
      [] opcode = 234 -> ld_8bit_mem(st, concatenate_bytes(x, y), regs.a)
      [] opcode = 240 -> ld_8bit(st, "A", read_byte(st.mmu, concatenate_bytes(x, 255)))
      [] opcode = 242 -> ld_8bit(st, "A", read_byte(st.mmu, concatenate_bytes(regs.c, 255)))
      [] opcode = 243 -> [st EXCEPT !.mmu = mmu_set_ime(st.mmu, 0)]
      [] opcode = 250 -> ld_8bit(st, "A", read_byte(st.mmu, concatenate_bytes(x, y)))
      [] opcode = 251 -> [st EXCEPT !.mmu = mmu_set_ime(st.mmu, 1)]

\* The closure of an entry of instructions_16bit (the opcodes after 0xCB).
Operation16(st, opcode) ==
    LET target == RegisterOf(opcode % 8)
        bit_position == (opcode % 64) \div 8
    IN  CASE opcode >= 48 /\ opcode <= 54 -> swap(st, target)
          \* "SWAP A" (0x37) calls srl
          [] opcode >= 55 /\ opcode <= 63 -> srl(st, target)
          [] opcode >= 64 /\ opcode <= 127 ->
                bit(st, IF target = "(HL)" THEN read_byte(st.mmu, hl(st.registers))
                        ELSE get_8bit_register(st.registers, target), bit_position)
          [] opcode >= 128 /\ opcode <= 191 ->
                TargetSet(st, target, res(TargetGet(st, target), bit_position))
          [] opcode >= 192 /\ opcode <= 255 ->
                TargetSet(st, target, set(TargetGet(st, target), bit_position))

-----------------------------------------------------------------------------
(* cpu/mod.rs and cpu/interrupts.rs *)

\* read_at_program_counter: <<value, state>>
read_at_program_counter(st) ==
    <<read_byte(st.mmu, st.registers.pc),
      Checked(st, st.registers.pc = 65535,
              LAMBDA s : WithRegisters(s, increment_pc(s.registers)))>>

\* The operand fetches of a Unary or Binary operation, then the closure.
RunOperation(st, prefixed, opcode, instruction) ==
    LET count == OperandCount(instruction.operation)
        first == read_at_program_counter(st)
        s1 == IF count >= 1 THEN first[2] ELSE st
        second == read_at_program_counter(s1)
        s2 == IF count = 2 /\ s1.fault = "none" THEN second[2] ELSE s1
    IN  Then(s2, LAMBDA s :
            IF prefixed THEN Operation16(s, opcode)
            ELSE Operation8(s, opcode, first[1], second[1]))

\* panic!("Unimplemented opcode 0xCB{:X} at {:#X}", opcode, pc - 1) behind the
\* prefix, panic!("Unimplemented opcode {:#X} at {:#X}", opcode, pc) otherwise;
\* pc is the register after the fetches. diagnostic: <<prefixed, opcode, at>>
Unimplemented(st, is_16bit_opcode, opcode) ==
    IF is_16bit_opcode
    THEN Checked(st, st.registers.pc = 0, LAMBDA s :
            [Panic(s, "Unimplemented opcode") EXCEPT
                !.diagnostic = <<TRUE, opcode, Wrap16(s.registers.pc - 1)>>])
    ELSE [Panic(st, "Unimplemented opcode") EXCEPT
                !.diagnostic = <<FALSE, opcode, st.registers.pc>>]

run_next_opcode(st) ==
    LET fetch == read_at_program_counter(st)
        is_16bit_opcode == fetch[1] = 203
        fetch2 == read_at_program_counter(fetch[2])
        opcode == IF is_16bit_opcode THEN fetch2[1] ELSE fetch[1]
        s0 == IF is_16bit_opcode /\ fetch[2].fault = "none" THEN fetch2[2] ELSE fetch[2]
        instruction == IF is_16bit_opcode THEN instructions_16bit(opcode)
                       ELSE instructions_8bit(opcode)
    IN  Then(s0, LAMBDA s :
            IF instruction.operation = "None"
            THEN IF instruction.name = "" THEN Unimplemented(s, is_16bit_opcode, opcode) ELSE s
            ELSE RunOperation(s, is_16bit_opcode, opcode, instruction))

\* log_to_file that leaves SC as it found it.
log_to_file_keep_sc(st, log) ==
    LET tapped == sc(st.mmu) = 129
        log1 == IF tapped THEN Append(log, sb(st.mmu)) ELSE log
    IN  [st |-> IF LegalAddress(st.registers.pc + 3) THEN st ELSE Panic(st, "unwrap"),
         serial_log |-> log1]

\* log_to_file: [st, serial_log]. The serial tap, then the PCMEM bytes at
\* pc .. pc + 3, each read unwrapped: an address past 0xFFFF is a panic.
\* The character pushed is `sb as char`, the code point of the byte's value.
log_to_file(st, log) ==
    LET tapped == sc(st.mmu) = 129
        s1 == IF tapped THEN [st EXCEPT !.mmu = set_sc(st.mmu, 0)] ELSE st
        log1 == IF tapped THEN Append(log, sb(st.mmu)) ELSE log
    IN  [st |-> IF LegalAddress(st.registers.pc + 3) THEN s1 ELSE Panic(s1, "unwrap"),
         serial_log |-> log1]

\* Interrupt::VALUES, by discriminant: VBlank, LCD, Timer, Serial, Joypad
InterruptValues == {0, 1, 2, 3, 4}

\* The handler address the match of handle_interrupts selects.
InterruptVector(interrupt) == 64 + 8 * interrupt

\* The interrupts whose bit is set in both IE and IF.
PendingInterrupts(mm) ==
    {i \in InterruptValues :
        BitAnd(ie(mm), Shl1(i)) # 0 /\ BitAnd(iflag(mm), Shl1(i)) # 0}

\* dispatch that resets every request of IF.
dispatch_clear_all(st, interrupt) ==
    LET return_lower == split_2bytes(st.registers.pc)[1]
        return_higher == split_2bytes(st.registers.pc)[2]
        s0 == [st EXCEPT !.registers = set_ime(@, FALSE),
                         !.mmu = set_iflag(@, 0)]
    IN  Then(Then(Then(Then(DecrementSp(s0),
            LAMBDA s : ld_8bit_mem(s, s.registers.sp, return_higher)),
            LAMBDA s : DecrementSp(s)),
            LAMBDA s : ld_8bit_mem(s, s.registers.sp, return_lower)),
            LAMBDA s : WithRegisters(s, set_16bit_register(s.registers, "PC",
                                            InterruptVector(interrupt))))

\* dispatch without registers.set_ime(false).
dispatch_keep_ime(st, interrupt) ==
    LET return_lower == split_2bytes(st.registers.pc)[1]
        return_higher == split_2bytes(st.registers.pc)[2]
        s0 == [st EXCEPT !.mmu = set_iflag(@, BitAnd(iflag(@), BitNot8(Shl1(interrupt))))]
    IN  Then(Then(Then(Then(DecrementSp(s0),
            LAMBDA s : ld_8bit_mem(s, s.registers.sp, return_higher)),
            LAMBDA s : DecrementSp(s)),
            LAMBDA s : ld_8bit_mem(s, s.registers.sp, return_lower)),
            LAMBDA s : WithRegisters(s, set_16bit_register(s.registers, "PC",
                                            InterruptVector(interrupt))))

\* The body of `if registers.ime()`: the return address goes on the stack
\* high byte at SP-1, low byte at SP-2.
dispatch(st, interrupt) ==
    LET return_lower == split_2bytes(st.registers.pc)[1]
        return_higher == split_2bytes(st.registers.pc)[2]
        s0 == [st EXCEPT !.registers = set_ime(@, FALSE),
                         !.mmu = set_iflag(@, BitAnd(iflag(@), BitNot8(Shl1(interrupt))))]
    IN  Then(Then(Then(Then(DecrementSp(s0),
            LAMBDA s : ld_8bit_mem(s, s.registers.sp, return_higher)),
            LAMBDA s : DecrementSp(s)),
            LAMBDA s : ld_8bit_mem(s, s.registers.sp, return_lower)),
            LAMBDA s : WithRegisters(s, set_16bit_register(s.registers, "PC",
                                            InterruptVector(interrupt))))

\* handle_interrupts serving the last pending interrupt in VALUES order.
handle_interrupts_last(st) ==
    LET pending == PendingInterrupts(st.mmu)
        interrupt == CHOOSE i \in pending : \A j \in pending : i >= j
    IN  IF ie(st.mmu) = 0 \/ iflag(st.mmu) = 0 \/ pending = {}
        THEN [st |-> st, result |-> FALSE]
        ELSE [st |-> IF ime(st.registers) THEN dispatch(st, interrupt) ELSE st,
              result |-> TRUE]

\* handle_interrupts without the test of registers.ime().
handle_interrupts_unmasked(st) ==
    LET pending == PendingInterrupts(st.mmu)
        interrupt == CHOOSE i \in pending : \A j \in pending : i <= j
    IN  IF ie(st.mmu) = 0 \/ iflag(st.mmu) = 0 \/ pending = {}
        THEN [st |-> st, result |-> FALSE]
        ELSE [st |-> dispatch(st, interrupt), result |-> TRUE]

\* handle_interrupts: [st, result]; the first pending interrupt in VALUES order.
handle_interrupts(st) ==
    LET pending == PendingInterrupts(st.mmu)
        interrupt == CHOOSE i \in pending : \A j \in pending : i <= j
    IN  IF ie(st.mmu) = 0 \/ iflag(st.mmu) = 0 \/ pending = {}
        THEN [st |-> st, result |-> FALSE]
        ELSE [st |-> IF ime(st.registers) THEN dispatch(st, interrupt) ELSE st,
              result |-> TRUE]

\* emulation_loop: [st, serial_log, opcode_done, result, logged]; logged is the
\* state behind log_to_file, opcode_done the state between run_next_opcode and
\* handle_interrupts, result the Ok(1) the function ends with.
emulation_loop(st, log) ==
    LET logged == log_to_file(st, log)
        opcode_done == Then(logged.st, LAMBDA s : run_next_opcode(s))
        handled == Then(opcode_done, LAMBDA s : handle_interrupts(s).st)
    IN  [st |-> handled, serial_log |-> logged.serial_log, opcode_done |-> opcode_done,
         result |-> 1, logged |-> logged.st]

-----------------------------------------------------------------------------
(* The register file driven through its public methods *)

\* How many calls and opcode effects a behaviour of the register file makes.
MaxRegisterCalls == 2

\* How many of them are opcode effects.
MaxEffects == 1

\* The values handed to the setters.
RegBytes == {15, 255}
RegWords == {4863, 49156, 65535}

InitRegisters == \E checks \in BOOLEAN : Constructed(0, checks)

\* A call of a Registers method: the file changes, or the process panics.
RegCall(regs, panics) ==
    /\ fault = "none"
    /\ steps < MaxRegisterCalls
    /\ steps' = steps + 1
    /\ IF panics
       THEN fault' = "overflow" /\ registers' = registers
       ELSE fault' = fault /\ registers' = regs
    /\ UNCHANGED <<mmu, serial_log, cycles, overflow_checks, ppu, phase, hist>>

RegSetF == \E val \in RegBytes : RegCall(set_f(registers, val), FALSE)

RegSet16 ==
    \E register \in {"AF", "BC", "DE", "HL", "SP", "PC"}, val \in RegWords :
        RegCall(set_16bit_register(registers, register, val), FALSE)

RegSetFlag ==
    \E flag \in Flags, val \in BOOLEAN : RegCall(set_flag(registers, flag, val), FALSE)

RegClearFlag == \E flag \in Flags : RegCall(clear_flag(registers, flag), FALSE)

RegFlipFlag == \E flag \in Flags : RegCall(flip_flag(registers, flag), FALSE)

RegClearAllFlags == RegCall(clear_all_flags(registers), FALSE)

RegIncrementSp ==
    RegCall(increment_sp(registers), overflow_checks /\ registers.sp = 65535)

RegDecrementSp ==
    RegCall(decrement_sp(registers), overflow_checks /\ registers.sp = 0)

RegIncrementPc ==
    RegCall(increment_pc(registers), overflow_checks /\ registers.pc = 65535)

\* The operand bytes handed to a closure.
RegOperands == {<<15, 192>>}

\* The table entries that hold a closure.
Effects ==
    {e \in BOOLEAN \X (0..255) :
        (IF e[1] THEN instructions_16bit(e[2]) ELSE instructions_8bit(e[2])).operation # "None"}

\* What the closure of a table entry leaves.
RegOpcodeWith(out) ==
    /\ steps' = steps + 1
    /\ hist' = Append(hist, [op |-> "effect"])
    /\ registers' = out.registers
    /\ mmu' = out.mmu
    /\ fault' = out.fault
    /\ UNCHANGED <<serial_log, cycles, overflow_checks, ppu, phase>>

\* The effect of an opcode: the closure of its entry in either table.
RegOpcode ==
    /\ fault = "none"
    /\ steps < MaxRegisterCalls
    /\ Len(hist) < MaxEffects
    /\ \E e \in Effects, ops \in RegOperands :
        RegOpcodeWith(IF e[1] THEN Operation16(Machine(registers, mmu), e[2])
                      ELSE Operation8(Machine(registers, mmu), e[2], ops[1], ops[2]))

NextRegisters ==
    \/ RegOpcode
    \/ RegSetF
    \/ RegSet16
    \/ RegSetFlag
    \/ RegClearFlag
    \/ RegFlipFlag
    \/ RegClearAllFlags
    \/ RegIncrementSp
    \/ RegDecrementSp
    \/ RegIncrementPc

SpecRegisters == InitRegisters /\ [][NextRegisters]_vars

\* C1: in every reachable state of the register file the low nibble of F is zero.
C1_FLowNibbleZero == BitAnd(registers.f, 15) = 0

\* POP AF ran at SP = 0xC004 on the work RAM bytes 0x1C and 0x23: A = 0x1C and
\* F = 0x20, the low nibble 0x3 masked away.
C1_Witness ==
    /\ Len(hist) > 0
    /\ registers.sp = 49158
    /\ registers.a = 28
    /\ registers.f = 32

-----------------------------------------------------------------------------
(* main.rs: Rainier::boot *)

\* The I/O registers boot() sets, in order, then write_byte(0xFF44, 0).
BootIo ==
    <<<<65280, 207>>, <<65281, 0>>, <<65282, 126>>, <<65284, 171>>, <<65285, 0>>,
      <<65286, 0>>, <<65287, 248>>, <<65295, 225>>, <<65296, 128>>, <<65297, 191>>,
      <<65298, 243>>, <<65299, 255>>, <<65300, 191>>, <<65302, 63>>, <<65303, 0>>,
      <<65304, 255>>, <<65305, 191>>, <<65306, 127>>, <<65307, 255>>, <<65308, 159>>,
      <<65309, 255>>, <<65310, 191>>, <<65312, 255>>, <<65313, 0>>, <<65314, 0>>,
      <<65315, 191>>, <<65316, 119>>, <<65317, 243>>, <<65318, 241>>, <<65344, 145>>,
      <<65345, 133>>, <<65346, 0>>, <<65347, 0>>, <<65348, 0>>, <<65349, 0>>,
      <<65350, 255>>, <<65351, 252>>, <<65354, 0>>, <<65355, 0>>, <<65535, 0>>,
      <<65348, 0>>>>

\* The value the last write of a list leaves at an address.
LastWrite(writes, address) ==
    LET hits == {i \in DOMAIN writes : writes[i][1] = address}
    IN  writes[CHOOSE i \in hits : \A j \in hits : j <= i][2]

\* An array after a list of setter calls; the setters of io.rs address the
\* I/O region and IE, where every write_byte succeeds.
ArrayAfter(mm, writes, region) ==
    LET array == mm[RegionField(region)]
        offsets == {writes[i][1] - RegionBase(region) :
                        i \in {j \in DOMAIN writes : from_address(writes[j][1]) = region}}
    IN  [o \in DOMAIN array \cup offsets |->
            IF o \in offsets THEN LastWrite(writes, o + RegionBase(region)) ELSE array[o]]

WriteAll(mm, writes) ==
    [mm EXCEPT !.io = ArrayAfter(mm, writes, "IO"),
               !.interrupt_enable_register = ArrayAfter(mm, writes, "InterruptEnableRegister")]

\* The register part of boot() without the call of clear_all_flags.
boot_registers_keep_flags(regs) ==
    set_flags(
        [regs EXCEPT !.a = 1, !.b = 0, !.c = 19, !.d = 0, !.e = 216,
                     !.h = 1, !.l = 77, !.pc = 256, !.sp = 65534],
        <<<<FlagZero, TRUE>>, <<FlagHalfCarry, TRUE>>, <<FlagCarry, TRUE>>>>)

\* The register part of boot(): set_a .. set_l, set_pc, set_sp, clear_all_flags,
\* then the flags Z, H and C set.
boot_registers(regs) ==
    set_flags(clear_all_flags(
        [regs EXCEPT !.a = 1, !.b = 0, !.c = 19, !.d = 0, !.e = 216,
                     !.h = 1, !.l = 77, !.pc = 256, !.sp = 65534]),
        <<<<FlagZero, TRUE>>, <<FlagHalfCarry, TRUE>>, <<FlagCarry, TRUE>>>>)

\* The registers after boot() on a new emulator: the post-boot-ROM values, F = Z H C.
BootRegisters == boot_registers(RegistersNew)

boot(mm, rom) == load_cartridge(WriteAll(mm, BootIo), rom)

-----------------------------------------------------------------------------
(* The emulator run on a cartridge: boot(), then emulation_loop() in a loop *)

\* The bound on the number of emulation_loop calls.
MaxSteps == 5

\* The operand bytes put behind every opcode: 0xC001 and 0x00FE as a16.
Operands == {<<1, 192>>, <<254, 0>>}

\* Every opcode, and every opcode behind the 0xCB prefix, with operand bytes.
SingleInstructions ==
    {<<opcode, ops[1], ops[2]>> : opcode \in (0..255) \ {203}, ops \in Operands}
        \cup {<<203, opcode>> : opcode \in 0..255}

\* What runs before the instruction under test: nothing, or OR 0x01 (clears Z and C).
Prefixes == {<<>>, <<246, 1>>}

\* The values LD SP, d16 and LD rr, d16 are given in the stack programs.
StackPointers == {65534, 49154, 32770, 32769, 32768, 65025, 1, 0}
PairValues == {4660, 65280}

LoadPair(register, value) ==
    CASE register = "BC" -> <<1, value % 256, value \div 256>>
      [] register = "DE" -> <<17, value % 256, value \div 256>>
      [] register = "HL" -> <<33, value % 256, value \div 256>>
      [] register = "SP" -> <<49, value % 256, value \div 256>>
      [] register = "AF" -> <<62, value \div 256>>

PushOpcode(register) ==
    CASE register = "BC" -> 197 [] register = "DE" -> 213
      [] register = "HL" -> 229 [] register = "AF" -> 245

PopOpcode(register) == PushOpcode(register) - 4

\* LD SP, d16; LD rr, d16 (LD A, d8 for AF); PUSH rr; POP rr
StackPrograms ==
    {LoadPair("SP", sp) \o LoadPair(register, value)
        \o <<PushOpcode(register), PopOpcode(register)>> :
        sp \in StackPointers, register \in {"BC", "DE", "HL", "AF"}, value \in PairValues}

\* Runs of EI (0xFB), DI (0xF3) and NOP.
ImePrograms ==
    {<<251, 251, 0, 0>>, <<251, 0, 0>>, <<243, 243, 0>>, <<251, 243, 0>>, <<243, 251, 0>>}

\* LD SP, d16; LD (0xFF01), SP stores SB and SC at once. Two transfers ("HI"),
\* and a store of 0x80, which starts no transfer.
SerialPrograms ==
    {<<49, 72, 129, 8, 1, 255, 49, 73, 129, 8, 1, 255, 0>>,
     <<49, 72, 128, 8, 1, 255, 0, 0>>,
     <<49, 72, 129, 8, 1, 255, 0, 0, 0>>}

\* A conditional branch behind XOR A (Z = 1, C = 0) or behind OR 0x01; CCF
\* (Z = 0, C = 1), with 0xC001 as a16 and +1 as s8.
ConditionPrograms ==
    {flags \o <<opcode, 1, 192>> :
        flags \in {<<175>>, <<246, 1, 63>>},
        opcode \in {32, 40, 48, 56} \cup {192, 200, 208, 216}
                       \cup {194, 202, 210, 218} \cup {196, 204, 212, 220}}

\* What sets the stack up before a call: nothing (SP = 0xFFFE), or LD SP, 0xC100.
StackSetups == {<<>>, <<49, 0, 193>>}

\* CALL a16 to a RET, to a NOP and a RET, and to a CALL of a second RET; the
\* subroutines lie behind three NOPs in the image.
CallPrograms ==
    {setup \o <<205, 6 + Len(setup), 1, 0, 0, 0>> \o body :
        setup \in StackSetups,
        body \in {<<201>>, <<0, 201>>}}
      \cup {setup \o <<205, 6 + Len(setup), 1, 0, 0, 0, 205, 10 + Len(setup), 1, 201, 201>> :
              setup \in StackSetups}

Programs ==
    {prefix \o body : prefix \in Prefixes, body \in SingleInstructions}
        \cup StackPrograms \cup ImePrograms \cup SerialPrograms \cup ConditionPrograms
        \cup CallPrograms

\* A cartridge image: the program at the entry point 0x0100, zero elsewhere.
Cartridge(program) == [o \in 256 .. (255 + Len(program)) |-> program[o - 255]]

\* The opcodes of RST 0 .. RST 7.
Restarts == {199, 207, 215, 223, 231, 239, 247, 255}

\* An image with RST n at the entry point and a RET at the address the RST calls.
RestartImages ==
    {[o \in {256, concatenate_bytes(RstTarget(opcode)[1], RstTarget(opcode)[2])} |->
         IF o = 256 THEN opcode ELSE 201] : opcode \in Restarts}

Cartridges == {Cartridge(program) : program \in Programs} \cup RestartImages

InitCpu == \E seed \in WorkRamSeeds, checks \in BOOLEAN : Constructed(seed, checks)

\* Rainier::boot(rom)
Boot ==
    \E rom \in Cartridges :
        /\ phase = "new"
        /\ phase' = "running"
        /\ registers' = BootRegisters
        /\ mmu' = boot(mmu, rom)
        /\ UNCHANGED <<serial_log, cycles, fault, overflow_checks, ppu, hist, steps>>

\* The opcode at an address: <<prefixed, opcode>>
OpcodeAt(mm, address) ==
    IF read_byte(mm, address) = 203
    THEN <<TRUE, read_byte(mm, Wrap16(address + 1))>>
    ELSE <<FALSE, read_byte(mm, address)>>

\* What a call of emulation_loop leaves in the emulator.
StepWith(out, at) ==
    /\ phase = "running"
    /\ fault = "none"
    /\ steps < MaxSteps
    /\ steps' = steps + 1
    /\ registers' = out.st.registers
    /\ mmu' = out.st.mmu
    /\ fault' = out.st.fault
    /\ serial_log' = out.serial_log
    /\ UNCHANGED <<cycles, overflow_checks, ppu, phase>>
    /\ hist' = Append(hist, [op |-> "step", prefixed |-> at[1], opcode |-> at[2],
                             before |-> registers, after |-> out.opcode_done.registers,
                             fault |-> out.st.fault, result |-> out.result,
                             diagnostic |-> out.st.diagnostic,
                             timer_before |-> cycles, timer_after |-> cycles',
                             sc_polled |-> sc(mmu), sb_polled |-> sb(mmu),
                             sc_logged |-> sc(out.logged.mmu), sc_after |-> sc(out.st.mmu),
                             log_before |-> serial_log, log_after |-> out.serial_log])

\* One iteration of the loop of main(): cpu.emulation_loop() and nothing else
\* (the call of the PPU is commented out, no Clock is constructed or advanced).
Step ==
    StepWith(emulation_loop(Machine(registers, mmu), serial_log),
             OpcodeAt(mmu, registers.pc))

NextCpu == Boot \/ Step

SpecCpu == InitCpu /\ [][NextCpu]_vars

\* The table entry of a recorded step.
InstructionOf(h) ==
    IF h.prefixed THEN instructions_16bit(h.opcode) ELSE instructions_8bit(h.opcode)

\* The step ran a JR, JP, CALL, RET or RST whose jump was made.
TakenBranch(h) ==
    /\ ~h.prefixed
    /\ \/ h.opcode \in {24, 195, 201, 205, 199, 207, 215, 223, 231, 239, 247, 255}
       \/ /\ h.opcode \in {32, 40, 48, 56, 192, 200, 208, 216, 194, 202, 210, 218,
                           196, 204, 220}
          /\ Condition(h.before, ConditionOf(h.opcode))

\* The bytes run_next_opcode reads for a step: opcode, CB second byte, operands.
BytesConsumed(h) ==
    (IF h.prefixed THEN 2 ELSE 1) + OperandCount(InstructionOf(h).operation)

\* C3: a step on an implemented opcode that is not a taken branch advances PC
\* by the length of its table entry, and the bytes the step reads are as many
\* as that length.
C3_PcAdvancesByLength ==
    \A i \in DOMAIN hist :
        LET h == hist[i] IN
        (InstructionOf(h).name # "" /\ ~TakenBranch(h)) =>
            /\ h.fault = "none" =>
                   Wrap16(h.after.pc - h.before.pc) = InstructionOf(h).length
            /\ BytesConsumed(h) = InstructionOf(h).length

\* A store can land at the address: write_byte accepts it.
Writable(address) == write_byte(MmuNew(0), address, 0).ok

\* The steps i and i + 1 are PUSH rr and POP rr of the same pair.
PushThenPop(i, register) ==
    /\ i \in DOMAIN hist
    /\ i + 1 \in DOMAIN hist
    /\ ~hist[i].prefixed /\ hist[i].opcode = PushOpcode(register)
    /\ ~hist[i + 1].prefixed /\ hist[i + 1].opcode = PopOpcode(register)

\* POP rr left the pair and SP as they were before PUSH rr; F keeps its high nibble.
RoundTrip(i, register) ==
    LET pushed == hist[i].before
        popped == hist[i + 1].after
    IN  /\ hist[i + 1].fault = "none"
        /\ popped.sp = pushed.sp
        /\ IF register = "AF"
           THEN popped.a = pushed.a /\ popped.f = BitAnd(pushed.f, 240)
           ELSE get_16bit_register(popped, register) = get_16bit_register(pushed, register)

\* PUSH rr completes and the POP rr behind it restores rr and SP.
PushPopRestores(i, register) ==
    /\ hist[i].fault = "none"
    /\ PushThenPop(i, register) => RoundTrip(i, register)

StackPairs == {"BC", "DE", "HL", "AF"}

Ran(i, opcode) == i \in DOMAIN hist /\ ~hist[i].prefixed /\ hist[i].opcode = opcode

\* C6: DI then DI leaves IME false; EI then EI arms IME once: IME is true once
\* the instruction behind the second EI has run.
C6_DiEiIdempotent ==
    \A i \in DOMAIN hist :
        /\ (Ran(i, 243) /\ Ran(i + 1, 243)) => ~ime(hist[i + 1].after)
        /\ (Ran(i, 251) /\ Ran(i + 1, 251) /\ Ran(i + 2, 0)) => ime(hist[i + 2].after)

\* C7: after EI with IME false, IME is still false while the next instruction
\* runs and true once it has run; DI clears IME in its own step.
C7_EiLatency ==
    \A i \in DOMAIN hist :
        /\ (Ran(i, 251) /\ ~ime(hist[i].before) /\ Ran(i + 1, 0)) =>
               (~ime(hist[i + 1].before) /\ ime(hist[i + 1].after))
        /\ Ran(i, 243) => ~ime(hist[i].after)

\* C15: every iteration of the top-level loop advances the timer by the N
\* cycles the CPU step returned, before the next step begins.
C15_TimerAdvancedEachIteration ==
    \A i \in DOMAIN hist :
        hist[i].fault = "none" => hist[i].timer_after = hist[i].timer_before + hist[i].result

\* C16: a step that polls SC = 0x81 appends the SB byte to the serial log and
\* sets SC to 0, any other step leaves log and SC alone; the log only grows at
\* its end; a step polls 0x81 exactly when the step before left it in SC, so a
\* write of 0x81 gives one character.
C16_SerialTap ==
    \A i \in DOMAIN hist :
        LET h == hist[i] IN
        /\ IF h.sc_polled = 129
           THEN h.log_after = Append(h.log_before, h.sb_polled) /\ h.sc_logged = 0
           ELSE h.log_after = h.log_before /\ h.sc_logged = h.sc_polled
        /\ h.log_before = (IF i = 1 THEN <<>> ELSE hist[i - 1].log_after)
        /\ i + 1 \in DOMAIN hist =>
               /\ hist[i + 1].sc_polled = h.sc_after
               /\ (h.sc_after = 129) <=> (Len(hist[i + 1].log_after) = Len(h.log_after) + 1)
        /\ i = Len(hist) => serial_log = h.log_after

\* Two transfers made: the log holds "HI" and SC is back at 0.
C16_Witness ==
    /\ serial_log = <<72, 73>>
    /\ sc(mmu) = 0
    /\ Len(hist) = 5
    /\ fault = "none"

\* The conditional branches of the table, and the T-cycles the spec gives a
\* branch not taken.  The table has no entry at 0xD4: the entry named
\* CALL NC is stored at 0xC4.
ConditionalBranches ==
    {32, 40, 48, 56} \cup {194, 202, 210, 218} \cup {196, 204, 220}
        \cup {192, 200, 208, 216}

NotTakenCycles(opcode) == IF opcode \in {32, 40, 48, 56, 192, 200, 208, 216} THEN 8 ELSE 12

BranchLength(opcode) ==
    IF opcode \in {32, 40, 48, 56} THEN 2 ELSE IF opcode >= 192 /\ opcode % 8 = 0 THEN 1 ELSE 3

\* The step ran a conditional branch whose condition was false.
NotTaken(h) ==
    /\ ~h.prefixed
    /\ h.opcode \in ConditionalBranches
    /\ ~Condition(h.before, ConditionOf(h.opcode))

\* C23: a conditional branch whose condition is false moves PC by the length of
\* the instruction, changes no other register or flag, and its step reports
\* the not-taken cycle count: 8 for JR and RET, 12 for JP and CALL.
C23_NotTakenBranch ==
    \A i \in DOMAIN hist :
        NotTaken(hist[i]) =>
            /\ hist[i].fault = "none"
            /\ hist[i].after =
                   [hist[i].before EXCEPT !.pc = Wrap16(@ + BranchLength(hist[i].opcode))]
            /\ hist[i].result = NotTakenCycles(hist[i].opcode)

\* The sixteen slots of JR cc, RET cc, JP cc and CALL cc, 0xD4 among them.
ConditionalSlots == ConditionalBranches \cup {212}

\* The condition the mnemonic of a slot names: NZ, Z, NC, C by bits 4:3.
OwnCondition(opcode) == <<"NZ", "Z", "NC", "C">>[((opcode \div 8) % 4) + 1]

\* The registers a branch not taken leaves.
FellThrough(h) == [h.before EXCEPT !.pc = Wrap16(@ + BranchLength(h.opcode))]

\* C34: every one of the sixteen conditional slots is defined and its branch is
\* taken exactly when the condition of its own mnemonic holds: NZ iff Z = 0,
\* Z iff Z = 1, NC iff C = 0, C iff C = 1.
C34_OwnCondition ==
    \A i \in DOMAIN hist :
        (~hist[i].prefixed /\ hist[i].opcode \in ConditionalSlots) =>
            /\ hist[i].fault # "Unimplemented opcode"
            /\ hist[i].fault = "none" =>
                   ((hist[i].after # FellThrough(hist[i]))
                        <=> Condition(hist[i].before, OwnCondition(hist[i].opcode)))

\* The address ret would pop: the byte at SP is the high one, the byte above it the low one.
ReturnAddress(mm, sp) ==
    concatenate_bytes(read_byte(mm, Wrap16(sp + 1)), read_byte(mm, sp))

\* C33: RST n (0xC7 + 8n) pushes the address of the instruction after it and
\* leaves PC = 8n, one of 0x00, 0x08, ... 0x38, so PC < 0x0040.
C33_RestartVectors ==
    (hist # <<>> /\ ~hist[Len(hist)].prefixed /\ hist[Len(hist)].opcode \in Restarts) =>
        LET h == hist[Len(hist)] IN
        /\ h.fault = "none"
        /\ h.after.pc = h.opcode - 199
        /\ h.after.pc < 64
        /\ h.after.sp = Wrap16(h.before.sp - 2)
        /\ ReturnAddress(mmu, h.after.sp) = Wrap16(h.before.pc + 1)

\* A step that ran CALL a16 or RST n, and one that ran RET, to the end.
Enters(i) ==
    /\ i \in DOMAIN hist
    /\ ~hist[i].prefixed
    /\ hist[i].opcode \in {205} \cup Restarts
    /\ hist[i].fault = "none"

Returns(j) ==
    /\ j \in DOMAIN hist
    /\ ~hist[j].prefixed
    /\ hist[j].opcode = 201
    /\ hist[j].fault = "none"

\* Step j is the RET of the call of step i: nothing, a NOP, or one whole inner
\* call and its RET ran in between.
Paired(i, j) ==
    /\ Enters(i)
    /\ Returns(j)
    /\ \/ j = i + 1
       \/ j = i + 2 /\ ~hist[i + 1].prefixed /\ hist[i + 1].opcode = 0
       \/ j = i + 3 /\ Enters(i + 1) /\ Returns(i + 2)

\* C39: the RET of a CALL a16 leaves PC at the address of the CALL plus 3 (plus 1
\* for RST n) and SP at its value before the call; nested pairs return last-in
\* first-out.
C39_CallRetRoundTrip ==
    \A i, j \in DOMAIN hist :
        Paired(i, j) =>
            /\ hist[j].after.pc =
                   Wrap16(hist[i].before.pc + (IF hist[i].opcode = 205 THEN 3 ELSE 1))
            /\ hist[j].after.sp = hist[i].before.sp

\* With SP = 0xC100: CALL 0x0109, CALL 0x010D, RET to 0x010C, RET to 0x0106.
C39_Witness ==
    /\ Len(hist) = 5
    /\ Paired(2, 5)
    /\ Paired(3, 4)
    /\ hist[2].before.sp = 49408
    /\ hist[3].before.pc = 265
    /\ hist[4].after.pc = 268
    /\ registers.pc = 262
    /\ registers.sp = 49408

\* The bytes watched around DI and EI: IE (0xFFFF), IF (0xFF0F), the I/O byte
\* 0xFF78, the first byte of High RAM and of Work RAM.
ImeAddresses == {65535, 65295, 65400, 65408, 49152}

\* C26: DI (0xF3) and EI (0xFB) change no byte of the address space: IE, IF and
\* every other I/O byte read the same after the step as before it.
C26_ImeOffTheBus ==
    [][(phase = "running" /\ read_byte(mmu, registers.pc) \in {243, 251}) =>
        \A a \in ImeAddresses : read_byte(mmu', a) = read_byte(mmu, a)]_vars

\* The ROM addresses watched: both ends of both banks, the program at the entry
\* point, and 0x014D, where HL points after boot.
RomAddresses == {0, 16383, 16384, 32767, 333} \cup (256..270)

\* C18: no CPU step changes the byte read_byte returns at an address of the
\* cartridge ROM, 0x0000..=0x7FFF.
C18_RomReadOnly ==
    [][phase = "running" =>
        \A a \in RomAddresses : read_byte(mmu', a) = read_byte(mmu, a)]_vars

\* C19: LD (HL), A with HL in ROM or Echo RAM, and PUSH rr with a byte landing
\* there, complete without a fault: PC moves past the opcode, PUSH takes 2 off SP.
C19_RejectedStoreIsNoOp ==
    \A i \in DOMAIN hist :
        LET h == hist[i] IN
        /\ (Ran(i, 119) /\ ~Writable(hl(h.before))) =>
               (h.fault = "none" /\ h.after.pc = Wrap16(h.before.pc + 1))
        /\ \A register \in StackPairs :
               (/\ Ran(i, PushOpcode(register))
                /\ h.before.sp >= 2
                /\ ~Writable(h.before.sp - 1) \/ ~Writable(h.before.sp - 2)) =>
                   (h.fault = "none" /\ h.after.sp = h.before.sp - 2)

\* The table holds no entry for the opcode of the step.
Undefined(h) == InstructionOf(h).operation = "None" /\ InstructionOf(h).name = ""

\* The address of the opcode byte of a step; behind the prefix the address of
\* the prefix or of the second byte.
OpcodeAddresses(h) ==
    IF h.prefixed THEN {h.before.pc, Wrap16(h.before.pc + 1)} ELSE {h.before.pc}

\* C20: a step on an opcode without a table entry ends in the fatal error, whose
\* message names the opcode byte and the address of that opcode; a step on an
\* opcode with an entry, NOP included, never ends in that error.
C20_UndefinedOpcodeDiagnostic ==
    \A i \in DOMAIN hist :
        LET h == hist[i] IN
        IF Undefined(h)
        THEN /\ h.fault = "Unimplemented opcode"
             /\ h.diagnostic[2] = h.opcode
             /\ h.diagnostic[3] \in OpcodeAddresses(h)
        ELSE h.fault # "Unimplemented opcode"

-----------------------------------------------------------------------------
(* The interrupt dispatch driven directly: a caller arms the registers and the
   IE and IF bytes, calls handle_interrupts and then runs RET. *)

\* The PC and SP at the dispatch, and the IE and IF bytes.
IrqPcs == {0, 255, 336, 4660, 16448, 65535}
IrqSps == {65534, 49154, 53248, 65296, 32768, 0}
IrqMasks == {0, 1, 4, 16, 24, 31, 224, 230}

InitIrq == \E checks \in BOOLEAN : Constructed(0, checks)

\* set_ime, set_pc, set_sp on the registers; set_ie and set_iflag on the MMU
IrqSetup ==
    \E p \in IrqPcs, s \in IrqSps, enabled \in IrqMasks, requested \in IrqMasks,
       master \in BOOLEAN :
        /\ phase = "new"
        /\ phase' = "armed"
        /\ registers' = set_ime([registers EXCEPT !.pc = p, !.sp = s], master)
        /\ mmu' = WriteAll(mmu, <<<<65535, enabled>>, <<65295, requested>>>>)
        /\ UNCHANGED <<serial_log, cycles, fault, overflow_checks, ppu, hist, steps>>

\* What a call of handle_interrupts leaves.
IrqDispatchWith(out) ==
    /\ phase = "armed"
    /\ phase' = "dispatched"
    /\ registers' = out.st.registers
    /\ mmu' = out.st.mmu
    /\ fault' = out.st.fault
    /\ hist' = <<[op |-> "handle_interrupts", before |-> registers, memory |-> mmu,
                  iflag |-> iflag(mmu), ie |-> ie(mmu), result |-> out.result,
                  dispatched |-> out.result /\ ime(registers)]>>
    /\ UNCHANGED <<serial_log, cycles, overflow_checks, ppu, steps>>

\* interrupts.handle_interrupts(&mut registers)
IrqDispatch == IrqDispatchWith(handle_interrupts(Machine(registers, mmu)))

\* What RET leaves when it is the next stack operation.
IrqRetWith(out) ==
    /\ phase = "dispatched"
    /\ fault = "none"
    /\ phase' = "returned"
    /\ registers' = out.registers
    /\ mmu' = out.mmu
    /\ fault' = out.fault
    /\ UNCHANGED <<serial_log, cycles, overflow_checks, ppu, hist, steps>>

IrqRet == IrqRetWith(ret(Machine(registers, mmu)))

\* registers.set_ime(true) by the caller after a call that left a request latched
IrqRearm ==
    /\ phase = "dispatched"
    /\ fault = "none"
    /\ steps = 0
    /\ hist[1].result /\ ~hist[1].dispatched
    /\ phase' = "armed"
    /\ steps' = 1
    /\ registers' = set_ime(registers, TRUE)
    /\ UNCHANGED <<mmu, serial_log, cycles, fault, overflow_checks, ppu, hist>>

\* The bound on the emulation_loop and set_ime calls made while handlers run.
MaxServes == 4

\* The IE and IF bytes of the handler scenario.
ServeMasks == {<<31, 31>>, <<5, 7>>, <<4, 31>>, <<16, 24>>, <<31, 0>>}

\* A cartridge with EI at the VBlank and LCD vectors, RETI (0xD9) at the Timer
\* vector and DI at the Joypad vector; NOPs everywhere else.
HandlerImage == [o \in {64, 72, 80, 96} |->
    CASE o = 64 -> 251 [] o = 72 -> 251 [] o = 80 -> 217 [] o = 96 -> 243]

\* load_cartridge; set_ie and set_iflag on the MMU; set_ime, set_pc, set_sp on
\* the registers
IrqServeSetup ==
    \E masks \in ServeMasks, master \in BOOLEAN :
        /\ phase = "new"
        /\ phase' = "serving"
        /\ registers' = set_ime([registers EXCEPT !.pc = 336, !.sp = 65534], master)
        /\ mmu' = WriteAll(load_cartridge(mmu, HandlerImage),
                            <<<<65535, masks[1]>>, <<65295, masks[2]>>>>)
        /\ UNCHANGED <<serial_log, cycles, fault, overflow_checks, ppu, hist, steps>>

\* What a call of emulation_loop leaves while handlers run.
IrqServeWith(out) ==
    /\ phase = "serving"
    /\ fault = "none"
    /\ steps < MaxServes
    /\ steps' = steps + 1
    /\ registers' = out.st.registers
    /\ mmu' = out.st.mmu
    /\ fault' = out.st.fault
    /\ serial_log' = out.serial_log
    /\ hist' = Append(hist, [op |-> "step", opcode |-> read_byte(mmu, registers.pc),
                             before |-> registers,
                             opcode_done |-> out.opcode_done.registers,
                             iflag_done |-> iflag(out.opcode_done.mmu),
                             ie_done |-> ie(out.opcode_done.mmu),
                             after |-> out.st.registers,
                             iflag_after |-> iflag(out.st.mmu),
                             fault |-> out.st.fault])
    /\ UNCHANGED <<cycles, overflow_checks, ppu, phase>>

\* cpu.emulation_loop()
IrqServe == IrqServeWith(emulation_loop(Machine(registers, mmu), serial_log))

\* registers.set_ime(true) by the caller between two calls of emulation_loop
IrqEnable ==
    /\ phase = "serving"
    /\ fault = "none"
    /\ steps < MaxServes
    /\ ~ime(registers)
    /\ steps' = steps + 1
    /\ registers' = set_ime(registers, TRUE)
    /\ hist' = Append(hist, [op |-> "set_ime"])
    /\ UNCHANGED <<mmu, serial_log, cycles, fault, overflow_checks, ppu, phase>>

NextIrq ==
    \/ IrqSetup \/ IrqDispatch \/ IrqRet \/ IrqRearm
    \/ IrqServeSetup \/ IrqServe \/ IrqEnable

SpecIrq == InitIrq /\ [][NextIrq]_vars

\* C4: a dispatch at PC = p, SP = s leaves p on the stack the way CALL lays a
\* return address out (low byte at s-1, high byte at s-2), and RET as the next
\* stack operation sets PC = p and SP = s.
C4_DispatchRetRoundTrip ==
    (phase \in {"dispatched", "returned"} /\ hist[1].dispatched /\ fault = "none") =>
        LET p == hist[1].before.pc
            s == hist[1].before.sp
        IN  /\ phase = "dispatched" =>
                /\ read_byte(mmu, Wrap16(s - 1)) = split_2bytes(p)[1]
                /\ read_byte(mmu, Wrap16(s - 2)) = split_2bytes(p)[2]
            /\ phase = "returned" => (registers.pc = p /\ registers.sp = s)

\* The requests the spec calls pending: IE & IF & 0x1F.
Common(h) == BitAnd(BitAnd(h.ie, h.iflag), 31)

\* The index of the lowest set bit of a mask that has one in 0 .. 4.
LowestBit(mask) == CHOOSE i \in 0..4 :
    /\ BitAnd(mask, Shl1(i)) # 0
    /\ \A j \in 0..(i - 1) : BitAnd(mask, Shl1(j)) = 0

\* The vectors of the spec, by interrupt index.
Vectors == <<64, 72, 80, 88, 96>>

\* C11: with IME true and IE & IF & 0x1F non-zero a completed dispatch leaves PC
\* at the vector of the lowest set bit of IE & IF; with IE & IF & 0x1F = 0 the
\* call reports nothing and changes neither the registers (PC, SP, IME) nor
\* memory (IF included), whatever the upper three bits of IE and IF are.
C11_DispatchByPriority ==
    (phase = "dispatched" /\ fault = "none") =>
        LET h == hist[1] IN
        /\ (ime(h.before) /\ Common(h) # 0) =>
               registers.pc = Vectors[LowestBit(Common(h)) + 1]
        /\ Common(h) = 0 =>
               (~h.result /\ registers = h.before /\ mmu = h.memory)

\* IE = 0xE6 and IF = 0x1F: LCD and Timer are both pending and LCD (0x48) won.
C11_Witness ==
    /\ phase = "dispatched"
    /\ hist[1].ie = 230 /\ hist[1].iflag = 31
    /\ ime(hist[1].before)
    /\ registers.pc = 72

\* The frame of a dispatch of the lowest pending interrupt.
DispatchFrame(h) ==
    LET i == LowestBit(Common(h)) IN
    /\ fault = "none"
    /\ iflag(mmu) = BitAnd(h.iflag, 255 - Shl1(i))
    /\ ie(mmu) = h.ie
    /\ ~ime(registers)
    /\ registers.sp = Wrap16(h.before.sp - 2)

\* The two bytes below SP take a store and are neither IF (0xFF0F) nor IE (0xFFFF).
StackClear(sp) ==
    /\ sp >= 2
    /\ Writable(sp - 1) /\ Writable(sp - 2)
    /\ {sp - 1, sp - 2} \cap {65295, 65535} = {}

C13_LatchedWhileImeFalse ==
    (phase = "dispatched" /\ Common(hist[1]) # 0) =>
        /\ ~ime(hist[1].before) =>
               (hist[1].result /\ registers = hist[1].before /\ mmu = hist[1].memory)
        /\ (steps = 1 /\ fault = "none") =>
               /\ hist[1].dispatched
               /\ registers.pc = Vectors[LowestBit(Common(hist[1])) + 1]

\* A request was left latched with IME false and dispatched by the call after set_ime(true).
C13_Witness ==
    /\ phase = "dispatched"
    /\ steps = 1
    /\ hist[1].dispatched
    /\ hist[1].iflag = 24 /\ hist[1].ie = 16
    /\ registers.pc = 96

\* handle_interrupts dispatched in the step: it moved a register or a bit of IF.
Served(h) ==
    /\ h.op = "step"
    /\ h.fault = "none"
    /\ (h.after # h.opcode_done \/ h.iflag_after # h.iflag_done)

\* IME went from false to true: by set_ime(true), or in the opcode of a step.
Raised(h) ==
    \/ h.op = "set_ime"
    \/ h.op = "step" /\ ~ime(h.before) /\ ime(h.opcode_done)

\* The step dispatched one interrupt b: one push, bit b of IF, the vector of b.
ServedOne(h) ==
    \E b \in InterruptValues :
        /\ BitAnd(h.iflag_done, Shl1(b)) # 0
        /\ h.iflag_after = h.iflag_done - Shl1(b)
        /\ h.after.pc = Vectors[b + 1]
        /\ h.after.sp = Wrap16(h.opcode_done.sp - 2)

\* C40: between two steps that dispatch an interrupt IME was set true again,
\* however many enabled requests stay pending in IE & IF; a step dispatches at
\* most one interrupt.
C40_NoNestedDispatch ==
    phase = "serving" =>
        /\ \A i, j \in DOMAIN hist :
               (i < j /\ Served(hist[i]) /\ Served(hist[j])) =>
                   \E k \in (i + 1) .. j : Raised(hist[k])
        /\ \A i \in DOMAIN hist : Served(hist[i]) => ServedOne(hist[i])

\* VBlank was dispatched out of IE = IF = 0x1F; EI at its vector and two NOPs ran
\* with four requests still pending and none was dispatched.
C40_Witness ==
    /\ phase = "serving"
    /\ Len(hist) = 4
    /\ Served(hist[1])
    /\ hist[2].op = "step" /\ hist[2].opcode = 251 /\ ~Served(hist[2])
    /\ hist[3].op = "step" /\ ~Served(hist[3])
    /\ hist[4].op = "step" /\ ~Served(hist[4])
    /\ BitAnd(hist[4].ie_done, hist[4].iflag_done) = 30
    /\ fault = "none"

-----------------------------------------------------------------------------
(* cpu/clock.rs *)

\* Interrupt::Timer as u8
Timer == 2

\* The cycles a match arm takes off the counter (arm 0; the arms 1, 2, 3 are empty).
ClockArmPeriod == 256

\* update_clock_cycles(count): [cycles, mmu, ticked]; ticked tells that the
\* arm that counts TIMA up was entered.
update_clock_cycles(clock_cycles, mm, count) ==
    LET total == clock_cycles + count
        clock_enable == BitAnd(tac(mm), 4) # 0
        clock_select == BitAnd(tac(mm), 3)
    IN  IF clock_enable /\ clock_select = 0 /\ total >= ClockArmPeriod
        THEN [cycles |-> total - ClockArmPeriod,
              mmu |-> IF tima(mm) = 255
                      THEN set_iflag(set_tima(mm, tma(mm)), BitOr(iflag(mm), Timer))
                      ELSE set_tima(mm, tima(mm) + 1),
              ticked |-> TRUE]
        ELSE [cycles |-> total, mmu |-> mm, ticked |-> FALSE]

-----------------------------------------------------------------------------
(* The timer driven directly: a caller sets the timer registers, advances the
   clock, and lets the CPU run a step. *)

\* The register values of the setup, and the T-cycles of one advance.
ClockTacs == {0, 1, 4, 5, 6, 7, 248}
ClockTimas == {0, 254, 255}
ClockIflags == {0, 4, 225}
ClockDeltas == {16, 256, 1024}

\* The values written to DIV: zero, and the 0xAB boot() writes.
ClockDivs == {0, 171}

InitClock == Constructed(0, FALSE)

\* set_div, set_tac, set_tima, set_tma, set_iflag, set_ie; set_ime and set_sp on
\* the registers
ClockSetup ==
    \E t \in ClockTacs, counter \in ClockTimas, requested \in ClockIflags,
       enabled \in {0, 4}, master \in BOOLEAN, divider \in ClockDivs :
        /\ phase = "new"
        /\ phase' = "timing"
        /\ registers' = set_ime([registers EXCEPT !.sp = 65534, !.pc = 336], master)
        /\ mmu' = WriteAll(set_div(mmu, divider),
                            <<<<65287, t>>, <<65285, counter>>, <<65286, 55>>,
                              <<65295, requested>>, <<65535, enabled>>>>)
        /\ hist' = <<[op |-> "setup", tima |-> counter, iflag |-> requested,
                      total |-> 0, ticks |-> 0, ticked |-> FALSE,
                      tima_before |-> counter, iflag_before |-> requested]>>
        /\ UNCHANGED <<serial_log, cycles, fault, overflow_checks, ppu, steps>>

\* What a call of update_clock_cycles leaves.
ClockAdvanceWith(count, out) ==
    /\ phase = "timing"
    /\ steps < MaxCalls
    /\ steps' = steps + 1
    /\ cycles' = out.cycles
    /\ mmu' = out.mmu
    /\ hist' = <<[hist[1] EXCEPT !.op = "advance",
                                 !.total = @ + count,
                                 !.ticks = @ + (IF out.ticked THEN 1 ELSE 0),
                                 !.ticked = out.ticked,
                                 !.tima_before = tima(mmu),
                                 !.iflag_before = iflag(mmu)]>>
    /\ UNCHANGED <<registers, serial_log, fault, overflow_checks, ppu, phase>>

\* clock.update_clock_cycles(count)
ClockAdvance ==
    \E count \in ClockDeltas :
        ClockAdvanceWith(count, update_clock_cycles(cycles, mmu, count))

\* What the CPU step behind the advances leaves.
ClockStepWith(out) ==
    /\ phase = "timing"
    /\ steps > 0
    /\ phase' = "stepped"
    /\ registers' = out.st.registers
    /\ mmu' = out.st.mmu
    /\ fault' = out.st.fault
    /\ serial_log' = out.serial_log
    /\ hist' = <<[hist[1] EXCEPT !.op = "step"],
                  [before |-> registers,
                   opcode_done |-> out.opcode_done.registers,
                   dispatched |-> /\ out.opcode_done.fault = "none"
                                  /\ ime(out.opcode_done.registers)
                                  /\ PendingInterrupts(out.opcode_done.mmu) # {},
                   result |-> out.result]>>
    /\ UNCHANGED <<cycles, overflow_checks, ppu, steps>>

\* cpu.emulation_loop() on the NOP the zeroed ROM holds at the PC
ClockStep == ClockStepWith(emulation_loop(Machine(registers, mmu), serial_log))

NextClock == ClockSetup \/ ClockAdvance \/ ClockStep

SpecClock == InitClock /\ [][NextClock]_vars

\* The setup of the timer scenario: TAC = 0x05, TIMA = 0xFF, TMA = 0x37, IE bit 2,
\* no request pending, and one advance of 16 T-cycles made.
TimerScenario ==
    /\ phase \in {"timing", "stepped"}
    /\ tac(mmu) = 5
    /\ tma(mmu) = 55
    /\ BitAnd(ie(mmu), 4) # 0
    /\ hist[1].tima = 255
    /\ hist[1].iflag = 0
    /\ hist[1].total = 16

\* C8: in the timer scenario with IME true the advance leaves TIMA = 0x37 and
\* IF bit 2 set, and the CPU step behind it dispatches: PC is pushed, IF bit 2
\* and IME are cleared, PC = 0x0050.
C8_TimerOverflowDispatch ==
    TimerScenario =>
        /\ (phase = "timing" /\ ime(registers)) =>
               (tima(mmu) = 55 /\ BitAnd(iflag(mmu), 4) = 4)
        /\ (phase = "stepped" /\ ime(hist[2].before)) =>
               /\ fault = "none"
               /\ registers.pc = 80
               /\ registers.sp = hist[2].before.sp - 2
               /\ BitAnd(iflag(mmu), 4) = 0
               /\ ~ime(registers)

\* C9: a tick of TIMA at 0xFF reloads TIMA from TMA and sets bit 2 (0x04) of IF,
\* the other bits of IF kept; a tick at another value counts TIMA up by one and
\* leaves IF alone.
C9_TimaTick ==
    (phase = "timing" /\ hist[1].op = "advance" /\ hist[1].ticked) =>
        IF hist[1].tima_before = 255
        THEN tima(mmu) = tma(mmu) /\ iflag(mmu) = BitOr(hist[1].iflag_before, 4)
        ELSE tima(mmu) = hist[1].tima_before + 1 /\ iflag(mmu) = hist[1].iflag_before

\* The T-cycles per tick TAC bits 1:0 select.
TimerPeriod(select) ==
    CASE select = 0 -> 1024 [] select = 1 -> 16 [] select = 2 -> 64 [] select = 3 -> 256

\* C10: with TAC bit 2 set the ticks of TIMA number floor(total T-cycles / period);
\* with TAC bit 2 clear no advance changes TIMA or IF.
C10_TicksPerPeriod ==
    phase = "timing" =>
        IF BitAnd(tac(mmu), 4) # 0
        THEN hist[1].ticks = hist[1].total \div TimerPeriod(BitAnd(tac(mmu), 3))
        ELSE tima(mmu) = hist[1].tima /\ iflag(mmu) = hist[1].iflag

\* C27: a write to DIV (0xFF04) leaves DIV reading 0, whatever value was
\* written, and from there DIV counts up by one (mod 256) for every 256 T-cycles
\* passed to the timer advance, whatever TAC holds.
C27_DivResetAndCount ==
    phase = "timing" => div(mmu) = (hist[1].total \div 256) % 256

\* The return address a dispatch left on the stack.
PushedPc == concatenate_bytes(read_byte(mmu, registers.sp),
                              read_byte(mmu, Wrap16(registers.sp + 1)))

\* C14: a CPU step that dispatches an interrupt runs no opcode: the PC it pushes
\* is the PC the step started with, no opcode moved the PC before the dispatch,
\* and the step reports 20 T-cycles.
C14_DispatchStepRunsNoOpcode ==
    (phase = "stepped" /\ fault = "none" /\ hist[2].dispatched) =>
        /\ hist[2].opcode_done.pc = hist[2].before.pc
        /\ PushedPc = hist[2].before.pc
        /\ hist[2].result = 20

-----------------------------------------------------------------------------
(* The arithmetic effects, the SP/PC steppers and boot() run on chosen
   register values *)

\* The values of A and of B, which is also the immediate operand.
AluBytes == {0, 1, 15, 16, 58, 62, 198, 255}

\* The flag bytes: none, C, Z N, all four.
AluFlags == {0, 16, 192, 240}

\* The values of HL, SP and PC.
AluWords == {0, 3840, 4096, 32767, 65535}

\* ADD A,B  ADC A,B  ADC A,d8  SUB B  SUB d8  INC A  INC B  DEC A  DEC B
\* INC BC  DEC BC  INC HL  INC SP  DEC SP  LD (HL+),A  LD (HL-),A
\* ADD HL,BC  ADD HL,HL  JR s8
AluOpcodes == {128, 136, 206, 144, 214, 60, 4, 61, 5, 3, 11, 35, 51, 59, 34, 50, 9, 41, 24}

InitAlu == \E checks \in BOOLEAN : Constructed(0, checks)

\* set_a, set_b, set_c, set_f, set_hl, set_sp, set_pc
AluSetup ==
    \E a \in AluBytes, b \in AluBytes, f \in AluFlags, word \in AluWords :
        /\ phase = "new"
        /\ phase' = "loaded"
        /\ registers' = set_hl(set_f([registers EXCEPT !.a = a, !.b = b, !.c = 0,
                                                        !.sp = word, !.pc = word], f), word)
        /\ UNCHANGED <<mmu, serial_log, cycles, fault, overflow_checks, ppu, hist, steps>>

\* What a call on the loaded registers leaves.
AluRunWith(name, opcode, out) ==
    /\ phase = "loaded"
    /\ phase' = "ran"
    /\ registers' = out.registers
    /\ mmu' = out.mmu
    /\ fault' = out.fault
    /\ hist' = <<[op |-> name, opcode |-> opcode, before |-> registers]>>
    /\ UNCHANGED <<serial_log, cycles, overflow_checks, ppu, steps>>

\* The closure of a table entry, with B as the immediate operand
AluEffect ==
    \E opcode \in AluOpcodes :
        AluRunWith("effect", opcode,
                   Operation8(Machine(registers, mmu), opcode, registers.b, 0))

\* registers.increment_sp(), decrement_sp(), increment_pc()
AluCounter ==
    \/ AluRunWith("increment_sp", 0, IncrementSp(Machine(registers, mmu)))
    \/ AluRunWith("decrement_sp", 0, DecrementSp(Machine(registers, mmu)))
    \/ AluRunWith("increment_pc", 0, read_at_program_counter(Machine(registers, mmu))[2])

\* The register part of Rainier::boot()
AluBoot ==
    AluRunWith("boot", 0, WithRegisters(Machine(registers, mmu), boot_registers(registers)))

\* Register files for the register-indexed rows of the tables: a different
\* value in every register, with HL in Work RAM (0xC002), at the last byte of
\* High RAM (0xFFFE) or in ROM (0x014D).
TableRegisters ==
    {[RegistersNew EXCEPT !.a = 90, !.b = 165, !.c = 15, !.d = 240, !.e = 90,
                          !.h = 192, !.l = 2, !.sp = 57328, !.pc = 336],
     [RegistersNew EXCEPT !.a = 0, !.b = 1, !.c = 128, !.d = 255, !.e = 16,
                          !.h = 255, !.l = 254, !.sp = 57328, !.pc = 336],
     [RegistersNew EXCEPT !.a = 255, !.b = 0, !.c = 129, !.d = 126, !.e = 8,
                          !.h = 1, !.l = 77, !.sp = 57328, !.pc = 336]}

\* The byte stored where HL points: nibbles that differ, bit 0 set alone, zero.
TableBytes == {60, 1, 0}

\* The rows run: LD r,r' and ALU A,r (0x40 - 0xBF without the empty slot 0x76),
\* and SWAP, SRL, BIT, RES, SET behind the prefix (0xCB30 - 0xCBFF).
TableOpcodes(prefixed) == IF prefixed THEN 48 .. 255 ELSE (64 .. 191) \ {118}

\* The addresses watched around a table entry: the three values of HL, their
\* neighbours and a byte of each I/O end.
TableAddresses == {49153, 49154, 49155, 65533, 65534, 65535, 332, 333, 65280}

\* set_a ... set_l, set_f, set_sp, set_pc, and write_byte(hl, value) where it is accepted
AluSeed ==
    \E regs \in TableRegisters, f \in AluFlags, value \in TableBytes :
        /\ phase = "new"
        /\ phase' = "seeded"
        /\ registers' = set_f(regs, f)
        /\ mmu' = write_byte(mmu, hl(regs), value).mmu
        /\ UNCHANGED <<serial_log, cycles, fault, overflow_checks, ppu, hist, steps>>

\* What the closure of a table entry leaves of the seeded machine.
AluEntryWith(prefixed, opcode, out) ==
    /\ phase = "seeded"
    /\ phase' = "ran"
    /\ registers' = out.registers
    /\ mmu' = out.mmu
    /\ fault' = out.fault
    /\ hist' = <<[op |-> "entry", prefixed |-> prefixed, opcode |-> opcode,
                  before |-> registers,
                  memory |-> [a \in TableAddresses |-> read_byte(mmu, a)]]>>
    /\ UNCHANGED <<serial_log, cycles, overflow_checks, ppu, steps>>

\* (instruction.operation)(mmu, registers) for an entry of either table
AluEntry ==
    \E prefixed \in BOOLEAN :
        \E opcode \in TableOpcodes(prefixed) :
            AluEntryWith(prefixed, opcode,
                         IF prefixed THEN Operation16(Machine(registers, mmu), opcode)
                         ELSE Operation8(Machine(registers, mmu), opcode, 0, 0))

NextAlu == AluSetup \/ AluEffect \/ AluCounter \/ AluBoot \/ AluSeed \/ AluEntry

SpecAlu == InitAlu /\ [][NextAlu]_vars

\* The flags of the register file as the spec names them.
FlagsAre(regs, z, n, h, c) ==
    /\ get_flag(regs, FlagZero) = z
    /\ get_flag(regs, FlagSubtraction) = n
    /\ get_flag(regs, FlagHalfCarry) = h
    /\ get_flag(regs, FlagCarry) = c

\* An effect of one of the opcodes ran.
Effect(opcodes) == phase = "ran" /\ hist[1].op = "effect" /\ hist[1].opcode \in opcodes

\* C21: ADC A,x completes with A = (A + x + C_in) mod 256, Z = (result = 0),
\* N = 0, H = ((A & 0xF) + (x & 0xF) + C_in > 0xF), C = (A + x + C_in > 0xFF).
C21_AdcResultAndFlags ==
    Effect({136, 206}) =>
        LET a == hist[1].before.a
            x == hist[1].before.b
            c_in == IF get_flag(hist[1].before, FlagCarry) THEN 1 ELSE 0
        IN  /\ fault = "none"
            /\ registers.a = (a + x + c_in) % 256
            /\ FlagsAre(registers, (a + x + c_in) % 256 = 0, FALSE,
                        (a % 16) + (x % 16) + c_in > 15, a + x + c_in > 255)

\* C22: SUB x completes for every A and x with A = (A - x) mod 256,
\* Z = (result = 0), N = 1, H = ((A & 0xF) < (x & 0xF)), C = (A < x).
C22_SubResultAndFlags ==
    Effect({144, 214}) =>
        LET a == hist[1].before.a
            x == hist[1].before.b
        IN  /\ fault = "none"
            /\ registers.a = Wrap8(a - x)
            /\ FlagsAre(registers, Wrap8(a - x) = 0, TRUE, (a % 16) < (x % 16), a < x)

\* C25: after boot() the register file is exactly A=0x01, F=0xB0, B=0x00,
\* C=0x13, D=0x00, E=0xD8, H=0x01, L=0x4D, SP=0xFFFE, PC=0x0100, whatever
\* the registers held before.
C25_BootRegisterFile ==
    (phase = "ran" /\ hist[1].op = "boot") =>
        /\ fault = "none"
        /\ registers.a = 1 /\ registers.f = 176
        /\ registers.b = 0 /\ registers.c = 19
        /\ registers.d = 0 /\ registers.e = 216
        /\ registers.h = 1 /\ registers.l = 77
        /\ registers.sp = 65534 /\ registers.pc = 256

\* A boot over a register file with every flag set and other values in A, B,
\* HL, SP and PC.
C25_BootOverDirtyRegisters ==
    /\ phase = "ran" /\ hist[1].op = "boot"
    /\ hist[1].before.f = 240 /\ hist[1].before.a = 255
    /\ hist[1].before.b = 198 /\ hist[1].before.sp = 32767
    /\ hist[1].before.h = 127 /\ hist[1].before.pc = 32767
    /\ registers.f = 176

\* The signed value of an operand byte.
Signed(byte) == IF byte >= 128 THEN byte - 256 ELSE byte

\* A call of one of the SP/PC steppers.
Stepped(name) == phase = "ran" /\ hist[1].op = name

\* C28: the 8-bit and 16-bit arithmetic wraps and never fails: increment_pc and
\* increment_sp take 0xFFFF to 0x0000, decrement_sp takes 0x0000 to 0xFFFF, and
\* INC/DEC r8, INC/DEC rr, LD (HL+)/(HL-), ADD, SUB and JR leave the result
\* reduced modulo 2^8 or 2^16.
C28_ArithmeticWraps ==
    LET b == hist[1].before IN
    /\ Stepped("increment_sp") => (fault = "none" /\ registers.sp = Wrap16(b.sp + 1))
    /\ Stepped("decrement_sp") => (fault = "none" /\ registers.sp = Wrap16(b.sp - 1))
    /\ Stepped("increment_pc") => (fault = "none" /\ registers.pc = Wrap16(b.pc + 1))
    /\ Effect({60, 4, 61, 5, 3, 11, 35, 51, 59, 128, 144, 24}) => fault = "none"
    /\ Effect({34, 50}) => fault # "overflow"
    /\ Effect({60}) => registers.a = Wrap8(b.a + 1)
    /\ Effect({4}) => registers.b = Wrap8(b.b + 1)
    /\ Effect({61}) => registers.a = Wrap8(b.a - 1)
    /\ Effect({5}) => registers.b = Wrap8(b.b - 1)
    /\ Effect({3}) => bc(registers) = Wrap16(bc(b) + 1)
    /\ Effect({11}) => bc(registers) = Wrap16(bc(b) - 1)
    /\ Effect({35}) => hl(registers) = Wrap16(hl(b) + 1)
    /\ Effect({51}) => registers.sp = Wrap16(b.sp + 1)
    /\ Effect({59}) => registers.sp = Wrap16(b.sp - 1)
    /\ (Effect({34}) /\ fault = "none") => hl(registers) = Wrap16(hl(b) + 1)
    /\ (Effect({50}) /\ fault = "none") => hl(registers) = Wrap16(hl(b) - 1)
    /\ Effect({128}) => registers.a = Wrap8(b.a + b.b)
    /\ Effect({144}) => registers.a = Wrap8(b.a - b.b)
    /\ Effect({24}) => registers.pc = Wrap16(b.pc + Signed(b.b))

\* The register INC A / DEC A (0x3C, 0x3D) or INC B / DEC B (0x04, 0x05) works on.
Operand8(regs, opcode) == IF opcode \in {60, 61} THEN regs.a ELSE regs.b

\* C29: INC r8 leaves r+1 (mod 256) with Z set exactly when the result is zero
\* (set and cleared), N = 0, H = carry out of bit 3, C as before; DEC r8 leaves
\* r-1 (mod 256) with Z likewise, N = 1, H = borrow from bit 4, C as before.
C29_IncDecFlags ==
    LET b == hist[1].before
        r == Operand8(b, hist[1].opcode)
        carry == get_flag(b, FlagCarry)
    IN  /\ Effect({60, 4}) =>
               /\ fault = "none"
               /\ Operand8(registers, hist[1].opcode) = Wrap8(r + 1)
               /\ FlagsAre(registers, Wrap8(r + 1) = 0, FALSE, r % 16 = 15, carry)
        /\ Effect({61, 5}) =>
               /\ fault = "none"
               /\ Operand8(registers, hist[1].opcode) = Wrap8(r - 1)
               /\ FlagsAre(registers, Wrap8(r - 1) = 0, TRUE, r % 16 = 0, carry)

\* The pair ADD HL,BC (0x09) or ADD HL,HL (0x29) adds to HL.
Operand16(regs, opcode) == IF opcode = 9 THEN bc(regs) ELSE hl(regs)

\* C30: ADD HL,rr leaves HL = (HL + rr) mod 2^16, Z as it was, N = 0, H = the
\* carry out of bit 11 and C = the carry out of bit 15.
C30_AddHlFlags ==
    Effect({9, 41}) =>
        LET b == hist[1].before
            rr == Operand16(b, hist[1].opcode)
        IN  /\ fault = "none"
            /\ hl(registers) = Wrap16(hl(b) + rr)
            /\ FlagsAre(registers, get_flag(b, FlagZero), FALSE,
                        (hl(b) % 4096) + (rr % 4096) > 4095, hl(b) + rr > 65535)

\* An unprefixed or prefixed table entry ran on the seeded machine.
Entry(prefixed, opcodes) ==
    /\ phase = "ran" /\ hist[1].op = "entry"
    /\ hist[1].prefixed = prefixed /\ hist[1].opcode \in opcodes

\* The value the column opcode % 8 names, before the entry ran: B, C, D, E, H,
\* L, the byte at HL, A.
ColumnBefore(h) ==
    IF h.opcode % 8 = 6 THEN h.memory[hl(h.before)]
    ELSE get_8bit_register(h.before, RegisterOf(h.opcode % 8))

\* C31: AND s (0xA0 - 0xA7) leaves A & s in A with Z = (result = 0), N = 0,
\* H = 1, C = 0 for each of the eight sources, AND A leaving A as it was;
\* XOR s (0xA8 - 0xAF) and OR s (0xB0 - 0xB7) leave A ^ s and A | s with N = 0,
\* H = 0, C = 0.
C31_LogicRows ==
    LET h == hist[1]
        s == ColumnBefore(h)
        a == h.before.a
    IN  /\ Entry(FALSE, 160 .. 167) =>
               /\ fault = "none"
               /\ registers.a = BitAnd(a, s)
               /\ FlagsAre(registers, BitAnd(a, s) = 0, FALSE, TRUE, FALSE)
        /\ Entry(FALSE, 168 .. 175) =>
               /\ fault = "none"
               /\ registers.a = BitXor(a, s)
               /\ FlagsAre(registers, BitXor(a, s) = 0, FALSE, FALSE, FALSE)
        /\ Entry(FALSE, 176 .. 183) =>
               /\ fault = "none"
               /\ registers.a = BitOr(a, s)
               /\ FlagsAre(registers, BitOr(a, s) = 0, FALSE, FALSE, FALSE)

\* The value the column opcode % 8 names, after the entry ran.
ColumnAfter(h) ==
    IF h.opcode % 8 = 6 THEN get_byte_ref(mmu, hl(h.before))
    ELSE get_8bit_register(registers, RegisterOf(h.opcode % 8))

\* The registers an entry working on the column opcode % 8 must leave alone:
\* all of them but the target, flags included.
OthersKept(h) ==
    \A r \in {"A", "B", "C", "D", "E", "H", "L"} :
        (h.opcode % 8 = 6 \/ r # RegisterOf(h.opcode % 8)) =>
            get_8bit_register(registers, r) = get_8bit_register(h.before, r)

\* C32: SET b,r (0xCBC0 - 0xCBFF) leaves bit b of the target 1 and RES b,r
\* (0xCB80 - 0xCBBF) leaves it 0, whatever it was before; the other seven bits,
\* the other registers and all four flags stay, and a second SET b,r changes
\* nothing more.
C32_SetResBit ==
    LET h == hist[1]
        value == ColumnBefore(h)
        mask == Shl1((h.opcode % 64) \div 8)
    IN  /\ Entry(TRUE, 192 .. 255) =>
               /\ fault = "none"
               /\ ColumnAfter(h) = BitOr(value, mask)
               /\ set(ColumnAfter(h), (h.opcode % 64) \div 8) = ColumnAfter(h)
               /\ registers.f = h.before.f /\ OthersKept(h)
        /\ Entry(TRUE, 128 .. 191) =>
               /\ fault = "none"
               /\ ColumnAfter(h) = BitAnd(value, BitNot8(mask))
               /\ registers.f = h.before.f /\ OthersKept(h)

\* The destination column of the LD rows: bits 5:3 of the opcode.
DestinationOf(opcode) == RegisterOf((opcode - 64) \div 8)

\* C35: for every destination and source among B, C, D, E, H, L, (HL), A, the
\* opcode 0x40 + 8*destination + source (0x76 aside) copies the value of the
\* source to the destination and changes nothing else: LD r,(HL) reads the byte
\* at HL, LD (HL),r stores r at HL (a writable address), and the flags, SP, PC,
\* the other registers and the other memory cells stay.
C35_LoadRows ==
    Entry(FALSE, (64 .. 127) \ {118}) =>
        LET h == hist[1]
            value == ColumnBefore(h)
            destination == DestinationOf(h.opcode)
        IN  (destination = "(HL)" => Writable(hl(h.before))) =>
                /\ fault = "none"
                /\ registers.f = h.before.f
                /\ registers.sp = h.before.sp /\ registers.pc = h.before.pc
                /\ \A r \in {"A", "B", "C", "D", "E", "H", "L"} :
                       get_8bit_register(registers, r) =
                           IF r = destination THEN value
                           ELSE get_8bit_register(h.before, r)
                /\ \A a \in TableAddresses :
                       read_byte(mmu, a) =
                           IF destination = "(HL)" /\ a = hl(h.before) THEN value
                           ELSE h.memory[a]

\* A byte with its nibbles exchanged.
Swapped(value) == (value % 16) * 16 + value \div 16

\* C36: SWAP (0xCB30 - 0xCB37) leaves the target with its nibbles exchanged,
\* Z = (result = 0) and N = H = C = 0, so that a second SWAP restores the value;
\* SRL (0xCB38 - 0xCB3F) leaves value >> 1 in the target with C = bit 0 of the
\* value before.
C36_SwapAndSrl ==
    LET h == hist[1]
        value == ColumnBefore(h)
    IN  /\ Entry(TRUE, 48 .. 55) =>
               /\ fault = "none"
               /\ ColumnAfter(h) = Swapped(value)
               /\ Swapped(ColumnAfter(h)) = value
               /\ FlagsAre(registers, Swapped(value) = 0, FALSE, FALSE, FALSE)
        /\ Entry(TRUE, 56 .. 63) =>
               /\ fault = "none"
               /\ ColumnAfter(h) = value \div 2
               /\ get_flag(registers, FlagCarry) = (value % 2 = 1)

-----------------------------------------------------------------------------
(* ppu/mod.rs and ppu/registers.rs: the OAM scan *)

ly(mm) == read_byte(mm, 65348)
lcdc(mm) == read_byte(mm, 65344)
scx(mm) == read_byte(mm, 65347)
scy(mm) == read_byte(mm, 65346)

\* Register::SpriteSize as u8
SpriteSize == 2

\* mmu.lcdc() & (1 << register as u8) != 0
check_register(mm, register) ==
    BitAnd(lcdc(mm), IF register = 0 THEN 1 ELSE 2 * Shl1(register - 1)) # 0

\* The four bytes of an OAM entry, from 0xFE00 + 4 * id
fetch_oam_entry(mm, id) ==
    LET address == RegionBase("SpriteAttributionTable") + 4 * id IN
    [y_position |-> read_byte(mm, address),
     x_position |-> read_byte(mm, address + 1),
     tile_index |-> read_byte(mm, address + 2),
     attributes |-> read_byte(mm, address + 3)]

\* The || chain of oam_entry_check, left to right: a term is computed only
\* when the terms before it are false. x_position is a u8, so `x_position < 0`
\* is false. [overflow, result]
oam_entry_check(p, mm, entry) ==
    LET full == \A i \in DOMAIN p.sprite_buffer : p.sprite_buffer[i] # None
        line == ly(mm) + 16
        height == IF check_register(mm, SpriteSize) THEN 16 ELSE 8
        bottom == entry.y_position + height
    IN  IF full \/ entry.x_position < 0
        THEN [overflow |-> FALSE, result |-> FALSE]
        ELSE IF Wrap8(line) < entry.y_position
        THEN [overflow |-> Overflows8(line), result |-> FALSE]
        ELSE [overflow |-> Overflows8(line) \/ Overflows8(bottom),
              result |-> ~(Wrap8(line) >= Wrap8(bottom))]

\* oam_scan: the entry goes into the first empty slot of the buffer. [ppu, fault]
oam_scan(p, mm, sprite_id) ==
    LET sprite == fetch_oam_entry(mm, sprite_id)
        check == oam_entry_check(p, mm, sprite)
        empty == {i \in DOMAIN p.sprite_buffer : p.sprite_buffer[i] = None}
    IN  IF check.overflow /\ overflow_checks THEN [ppu |-> p, fault |-> "overflow"]
        ELSE IF ~check.result THEN [ppu |-> p, fault |-> "none"]
        ELSE IF empty = {} THEN [ppu |-> p, fault |-> "unwrap"]
        ELSE [ppu |-> [p EXCEPT !.sprite_buffer[CHOOSE i \in empty : \A j \in empty : i <= j]
                                    = sprite],
              fault |-> "none"]

\* fetch_tile_number for the background: [overflow, offset]
fetch_tile_number(mm, x_pos, window_line_counter, is_window) ==
    LET column == (x_pos + (IF is_window THEN 0 ELSE scx(mm) \div 8)) % 32
        line == ly(mm) + scy(mm)
        row == IF is_window THEN window_line_counter \div 8 ELSE Wrap8(line) \div 8
    IN  [overflow |-> ~is_window /\ Overflows8(line),
         offset |-> (column + 32 * row) % 1024]

\* Ppu::emulation_loop(t_cycles): [ppu, fault]. t_cycles is not used.
ppu_emulation_loop(p, mm, t_cycles) ==
    IF p.current_mode.mode = "OAMScan"
    THEN LET scanned == oam_scan(p, mm, p.current_mode.sprite_id)
             count == p.current_t_cycles_count + 2
         IN  IF scanned.fault # "none" THEN scanned
             ELSE [ppu |-> [scanned.ppu EXCEPT
                               !.current_t_cycles_count = count,
                               !.current_mode =
                                   IF count >= 80
                                   THEN [mode |-> "Draw", x_pos |-> 0,
                                         window_line_counter |-> 0, is_window |-> FALSE]
                                   ELSE [mode |-> "OAMScan",
                                         sprite_id |-> p.current_mode.sprite_id + 1]],
                   fault |-> "none"]
    ELSE IF p.current_mode.mode = "Draw"
    THEN [ppu |-> p,
          fault |-> IF /\ overflow_checks
                       /\ fetch_tile_number(mm, p.current_mode.x_pos,
                                            p.current_mode.window_line_counter,
                                            p.current_mode.is_window).overflow
                    THEN "overflow" ELSE "none"]
    ELSE [ppu |-> p, fault |-> "todo"]

-----------------------------------------------------------------------------
(* The PPU driven from construction: a client fills OAM and calls emulation_loop *)

\* The bound on the number of calls of Ppu::emulation_loop: the 40 of the scan
\* and two in Draw.
MaxScans == 42

\* OAM contents, <<y, x>> by entry. LY reads 144, so the line is 160: a sprite
\* of height 8 covers it with y in 153 .. 160, one of height 16 with 145 .. 160.
OamProfiles ==
    {[id \in 0 .. 39 |-> <<156, 8>>],
     [id \in 0 .. 39 |-> <<0, 0>>],
     [id \in 0 .. 39 |-> IF id >= 28 THEN <<160, 1>> ELSE <<161, 8>>],
     [id \in 0 .. 39 |->
        CASE id = 0 -> <<156, 0>>
          [] id = 1 -> <<160, 8>>
          [] id = 2 -> <<161, 8>>
          [] id = 3 -> <<152, 8>>
          [] id = 4 -> <<145, 255>>
          [] id = 5 -> <<144, 8>>
          [] id = 39 -> <<153, 167>>
          [] OTHER -> <<250, 8>>]}

InitPpu == \E checks \in BOOLEAN : Constructed(0, checks)

\* write_byte on the 160 bytes of OAM (the tile index is the entry id), set_lcdc, set_scy
PpuSetup ==
    \E profile \in OamProfiles, tall \in {0, 4}, scroll \in {0, 120} :
        /\ phase = "new"
        /\ phase' = "scanning"
        /\ mmu' = [WriteAll(mmu, <<<<65344, 145 + tall>>, <<65346, scroll>>>>) EXCEPT
                      !.sprite_attribution_table =
                          [o \in 0 .. 159 |->
                              CASE o % 4 = 0 -> profile[o \div 4][1]
                                [] o % 4 = 1 -> profile[o \div 4][2]
                                [] o % 4 = 2 -> o \div 4
                                [] OTHER -> 0]]
        /\ UNCHANGED <<registers, serial_log, cycles, fault, overflow_checks, ppu, hist, steps>>

\* What a call of Ppu::emulation_loop leaves.
PpuStepWith(out) ==
    /\ phase = "scanning"
    /\ fault = "none"
    /\ steps < MaxScans
    /\ steps' = steps + 1
    /\ ppu' = out.ppu
    /\ fault' = out.fault
    /\ hist' = Append(hist, [op |-> "scan", mode |-> ppu.current_mode,
                             count |-> ppu.current_t_cycles_count,
                             kept |-> out.ppu.sprite_buffer # ppu.sprite_buffer])
    /\ UNCHANGED <<registers, mmu, serial_log, cycles, overflow_checks, phase>>

\* ppu.emulation_loop(t_cycles)
PpuStep == \E t_cycles \in {4, 12} : PpuStepWith(ppu_emulation_loop(ppu, mmu, t_cycles))

NextPpu == PpuSetup \/ PpuStep

SpecPpu == InitPpu /\ [][NextPpu]_vars

\* The entries in the sprite buffer.
Buffered == {ppu.sprite_buffer[i] : i \in {j \in DOMAIN ppu.sprite_buffer :
                                                ppu.sprite_buffer[j] # None}}

\* The height of a sprite, by bit 2 of LCDC.
SpriteHeight == IF check_register(mmu, SpriteSize) THEN 16 ELSE 8

\* An OAM entry on the current line: x > 0 and y <= LY + 16 < y + height.
Qualifies(entry) ==
    /\ entry.x_position > 0
    /\ entry.y_position <= ly(mmu) + 16
    /\ ly(mmu) + 16 < entry.y_position + SpriteHeight

\* C37: from OAMScan(0) with an empty buffer, call n + 1 of the PPU examines
\* OAM entry n, for n = 0 .. 39, at 2 T-cycles each, and the mode is Draw
\* exactly from 80 T-cycles on; the sprite buffer never holds more than 10
\* entries, a qualifying sprite met with the buffer full is dropped without a
\* fault, and every entry kept has x > 0 and a y-range that covers LY + 16.
C37_OamScan ==
    phase = "scanning" =>
        /\ \A n \in DOMAIN hist :
               n <= 40 => (/\ hist[n].mode = [mode |-> "OAMScan", sprite_id |-> n - 1]
                           /\ hist[n].count = 2 * (n - 1))
        /\ Len(hist) <= 40 => (fault = "none" /\ ppu.current_t_cycles_count = 2 * Len(hist))
        /\ (ppu.current_mode.mode = "Draw") <=> (ppu.current_t_cycles_count >= 80)
        /\ ppu.current_mode.mode \in {"OAMScan", "Draw"}
        /\ Cardinality(Buffered) <= 10
        /\ \A entry \in Buffered : Qualifies(entry)

====
